---- MODULE Spec2Model ----
(***************************************************************************)
(* Luster AI: job lifecycle and credit ledger.                             *)
(*                                                                         *)
(* The database is PostgreSQL at its default isolation level (READ         *)
(* COMMITTED), reached through SQLAlchemy ORM sessions.  A session reads   *)
(* committed rows into its own objects; an assignment such as              *)
(* credit.balance -= n changes the object, and the flush inside commit     *)
(* writes the object's value back as an absolute value (UPDATE ... SET     *)
(* balance = <value>), only for the columns whose value differs from the   *)
(* one the session loaded.  A plain UPDATE waits for a row lock held by    *)
(* another transaction and then applies; SELECT ... FOR UPDATE takes the   *)
(* row lock at the read, SKIP LOCKED passes over rows locked by others.    *)
(* Each action below is one such database step of a handler: a read that   *)
(* fills the handler's locals, or a commit.                                *)
(***************************************************************************)
EXTENDS Integers, Sequences, FiniteSets, TLC

\* ---------------------------------------------------------------- bounds
MaxTicks == 3
MaxInitBalance == 2
MaxGrants == 1
MaxCreditCost == 1
MaxDeliveries == 2
ShortTicks == 1

\* ------------------------------------------------------ program constants
LEASE_DURATION_MINUTES == 15
MAX_RETRIES == 3
ProviderMaxRetries == 3
FreeCost == 1
PremiumCost == 2
SmallBundleCredits == 5

Null == -1

\* The clock advances in steps that outlast one lease.
TickMinutes == LEASE_DURATION_MINUTES + 1

Users == {"u1"}
Clients == {"c1", "c2"}
Workers == {"w1", "w2"}
JobIds == {"j1", "j2"}
Tiers == {"free", "premium", "gold"}
Products == {"com.lusterai.credits.small", "unknown.product"}
CreditCosts == (0 - MaxCreditCost)..MaxCreditCost
AssetIds == {"a1", "a2"}
NoOne == "none"
NoJob == "none"
ShootIds == {"s1", "s2"}
NoProvider == [job |-> "none", attempt |-> 0, calls |-> 0, last |-> "none", result |-> "none"]
NoAsset == [shoot_id |-> "none", user_id |-> "none", file_path |-> "none"]

VARIABLES
    now,        \* datetime.utcnow(), in minutes
    hasCredit,  \* user -> a row of table credits exists
    balance,    \* user -> credits.balance
    jobs,       \* job id -> row of table jobs (status "absent": no row)
    events,     \* job id -> the job's rows of table job_events
    jlock,      \* job id -> the worker whose open transaction holds the row lock
    rqQueue,    \* job ids enqueued in Redis for process_image_enhancement
    client,     \* API request slot -> the request in flight and its last response
    worker,     \* polling worker -> its position in run/process_job and its locals
    rq,         \* the RQ worker: its position in process_image_enhancement
    grants,     \* webhook purchase events accepted so far
    refunds,    \* history: job id -> how often credits_used was added back
    holder,     \* history: job id -> the worker that committed the last claim
    initBalance, \* history: the balance in the initial state
    scope,      \* what the specification in force exercises; never changes
    objects,    \* the keys of the objects in storage (originals and outputs)
    assets,     \* asset id -> row of table assets added by an upload (NoAsset: no row)
    delivered,  \* history: the bodies of the webhook requests accepted so far
    shoots,     \* shoot id -> user_id of the row of table shoots ("none": no row)
    provider    \* the retry loop of enhance_image for the job being processed

vars == <<now, hasCredit, balance, jobs, events, jlock, rqQueue, client, worker,
          rq, grants, refunds, holder, initBalance, scope, objects, assets, delivered,
          shoots, provider>>

\* ------------------------------------------------------------- storage keys
\* The original of the job's asset (one asset per job).
OriginalKey(j) == [kind |-> "original", job |-> j, attempt |-> 0]

OutputKey_per_attempt(j) == [kind |-> "output", job |-> j, attempt |-> jobs[j].retry_count + 1]

\* The key of the output: .../outputs/{job.id}.jpg, whatever the attempt.
OutputKey(j) == [kind |-> "output", job |-> j, attempt |-> 0]

\* Where the specification does not follow the storage, no key is recorded,
\* every object asked for is taken to be there, and the provider call, the
\* upload and the commit of a success are one step.
Put(keys) == IF scope.storage THEN objects \cup keys ELSE objects

Stored(key) == ~scope.storage \/ key \in objects

\* ------------------------------------------------------------- job rows
AbsentJob ==
    [status |-> "absent", user_id |-> NoOne, credits_used |-> 0,
     lease_expires_at |-> Null, retry_count |-> 0, max_retries |-> 0,
     output_path |-> FALSE, error_message |-> "", started_at |-> Null]

\* Job(...) as the intake inserts it; retry_count and max_retries come from the
\* columns' server defaults.
NewJob_unpriced(u, cost) ==
    [status |-> "queued", user_id |-> u, credits_used |-> FreeCost,
     lease_expires_at |-> Null, retry_count |-> 0, max_retries |-> MAX_RETRIES,
     output_path |-> FALSE, error_message |-> "", started_at |-> Null]

NewJob(u, cost) ==
    [status |-> "queued", user_id |-> u, credits_used |-> cost,
     lease_expires_at |-> Null, retry_count |-> 0, max_retries |-> MAX_RETRIES,
     output_path |-> FALSE, error_message |-> "", started_at |-> Null]

\* The rows of job_events of one job, as the number of rows of each event_type
\* ("started_retry": a started event whose details carry is_retry).
EventTypes == {"created", "started", "started_retry", "completed", "failed",
               "credits_refunded", "max_retries_exceeded", "cleanup_max_retries"}

NoEvents == [t \in EventTypes |-> 0]

\* The events no code path queries (started, completed, failed,
\* cleanup_max_retries) are recorded where the specification audits them.
AuditOnly == {"started", "started_retry", "completed", "failed", "cleanup_max_retries"}

AddEvent(evs, type) ==
    IF type \in AuditOnly /\ ~scope.audit THEN evs ELSE [evs EXCEPT ![type] = @ + 1]

HasEvent(j, types) == \E t \in types : events[j][t] > 0

Created == {j \in JobIds : jobs[j].status # "absent"}

Terminal(j) == jobs[j].status \in {"succeeded", "failed"}

LeaseLive(j) ==
    /\ jobs[j].status = "processing"
    /\ jobs[j].lease_expires_at # Null
    /\ jobs[j].lease_expires_at >= now

\* ------------------------------------------------------------- locals
IdleClient == [pc |-> "idle", cost |-> 0, bal |-> 0, job |-> NoJob, code |-> 0, msg |-> ""]
IdleWorker == [pc |-> "idle", job |-> NoJob, is_retry |-> FALSE, bal |-> 0,
               refund |-> FALSE, seen_status |-> "", seen_lease |-> Null]

\* The user a request slot is signed in as: a second user where the
\* specification follows two accounts.
ClientUser(c) == IF c = "c2" /\ "u2" \in DOMAIN balance THEN "u2" ELSE "u1"

Respond(c, code, msg) == [IdleClient EXCEPT !.code = code, !.msg = msg]

\* ------------------------------------------------------------- initial state
\* us: the users whose credit rows the specification follows.
InitAccounts(us, sc) ==
    /\ scope = sc
    /\ now = 0
    /\ hasCredit \in [us -> BOOLEAN]
    /\ balance \in [us -> 0..MaxInitBalance]
    /\ \A u \in us : ~hasCredit[u] => balance[u] = 0
    /\ initBalance = balance
    /\ jobs = [j \in JobIds |-> AbsentJob]
    /\ events = [j \in JobIds |-> NoEvents]
    /\ jlock = [j \in JobIds |-> NoOne]
    /\ rqQueue = {}
    /\ client = [c \in Clients |-> IdleClient]
    /\ worker = [w \in Workers |-> IdleWorker]
    /\ rq = IdleWorker
    /\ grants = 0
    /\ refunds = [j \in JobIds |-> 0]
    /\ holder = [j \in JobIds |-> NoOne]
    /\ objects = {}
    /\ assets = [a \in AssetIds |-> NoAsset]
    /\ delivered = {}
    /\ shoots = [s \in ShootIds |-> NoOne]
    /\ provider = NoProvider

InitWith(sc) == InitAccounts(Users, sc)

\* ------------------------------------------------------------- intake: POST /jobs
TierCost_flat(tier) == FreeCost

TierCost(tier) == IF tier = "free" THEN FreeCost ELSE PremiumCost

\* The uuid4 of a new job row: an id not in use, among the ids the
\* specification gives the intake.
Unused == {j \in scope.jobs : jobs[j].status = "absent"}

FreshJobId == CHOOSE j \in Unused : TRUE

\* create_job up to the reservation in the session: the credit row is read
\* without a lock, the two balance checks answer 402, otherwise the handler
\* holds "balance - cost" to write.
CreateJobRead(c, tier) ==
    /\ client[c].pc = "idle"
    /\ LET u == ClientUser(c)
           cost == TierCost(tier) IN
       IF ~hasCredit[u] \/ balance[u] < 1 \/ balance[u] < cost
       THEN client' = [client EXCEPT ![c] = Respond(c, 402, "Insufficient credits")]
       ELSE client' = [client EXCEPT ![c] = [IdleClient EXCEPT !.pc = "cj_reserved",
                                              !.cost = cost, !.bal = balance[u]]]
    /\ UNCHANGED <<now, hasCredit, balance, jobs, events, jlock, rqQueue, worker,
                   rq, grants, refunds, holder, initBalance, scope, objects, assets, delivered,
                   shoots,
                   provider>>

\* The flushes and the commit of create_job, then the advisory enqueue, which
\* may fail (the exception is logged) without failing the request.
CreateJobCommit_required(c, enqueued) ==
    /\ client[c].pc = "cj_reserved"
    /\ Unused # {}
    /\ LET u == ClientUser(c)
           j == FreshJobId IN
       /\ balance' = [balance EXCEPT ![u] = client[c].bal - client[c].cost]
       /\ jobs' = [jobs EXCEPT ![j] = NewJob(u, client[c].cost)]
       /\ events' = [events EXCEPT ![j] = AddEvent(NoEvents, "created")]
       /\ rqQueue' = IF enqueued THEN rqQueue \cup {j} ELSE rqQueue
       /\ objects' = Put({OriginalKey(j)})
       /\ client' = [client EXCEPT ![c] = IF enqueued THEN Respond(c, 200, "queued")
                                          ELSE Respond(c, 500, "Internal Server Error")]
    /\ UNCHANGED <<now, hasCredit, jlock, worker, rq, grants, refunds, holder,
                   initBalance, scope, assets, delivered, shoots,
                   provider>>

CreateJobCommit(c, enqueued) ==
    /\ client[c].pc = "cj_reserved"
    /\ Unused # {}
    /\ LET u == ClientUser(c)
           j == FreshJobId IN
       /\ balance' = [balance EXCEPT ![u] = client[c].bal - client[c].cost]
       /\ jobs' = [jobs EXCEPT ![j] = NewJob(u, client[c].cost)]
       /\ events' = [events EXCEPT ![j] = AddEvent(NoEvents, "created")]
       /\ rqQueue' = IF enqueued THEN rqQueue \cup {j} ELSE rqQueue
       /\ objects' = Put({OriginalKey(j)})
       /\ client' = [client EXCEPT ![c] = Respond(c, 200, "queued")]
    /\ UNCHANGED <<now, hasCredit, jlock, worker, rq, grants, refunds, holder,
                   initBalance, scope, assets, delivered,
                   shoots,
                   provider>>

\* create_job ending in an error, or the API process dying, between the
\* reservation and db.commit(): get_db closes the session, which rolls the
\* flushed debit, job row and event back; the client gets a 500.
CreateJobAbort_flushed(c) ==
    /\ client[c].pc = "cj_reserved"
    /\ balance' = [balance EXCEPT ![ClientUser(c)] = client[c].bal - client[c].cost]
    /\ client' = [client EXCEPT ![c] = Respond(c, 500, "Internal Server Error")]
    /\ UNCHANGED <<now, hasCredit, jobs, events, jlock, rqQueue, worker, rq, grants,
                   refunds, holder, initBalance, scope, objects, assets, delivered,
                   shoots,
                   provider>>

CreateJobAbort(c) ==
    /\ client[c].pc = "cj_reserved"
    /\ client' = [client EXCEPT ![c] = Respond(c, 500, "Internal Server Error")]
    /\ UNCHANGED <<now, hasCredit, balance, jobs, events, jlock, rqQueue, worker, rq,
                   grants, refunds, holder, initBalance, scope, objects, assets, delivered,
                   shoots,
                   provider>>

\* ------------------------------------------------------------- intake: mobile enhance
\* mobile_enhance and mobile_enhance_base64 from the credit query on: the row
\* is read FOR UPDATE (created with balance 0 when missing), so the check, the
\* debit and the commit are one step for every other writer of the row.
\* credit_cost is the integer of the request, unvalidated.  No RQ enqueue.
MobileEnhance(c, credit_cost) ==
    /\ client[c].pc = "idle"
    /\ LET u == ClientUser(c) IN
       IF balance[u] < credit_cost
       THEN /\ client' = [client EXCEPT ![c] = Respond(c, 402, "Insufficient credits")]
            /\ UNCHANGED <<hasCredit, balance, jobs, events, objects>>
       ELSE /\ Unused # {}
            /\ LET j == FreshJobId IN
               /\ hasCredit' = [hasCredit EXCEPT ![u] = TRUE]
               /\ balance' = [balance EXCEPT ![u] = balance[u] - credit_cost]
               /\ jobs' = [jobs EXCEPT ![j] = NewJob(u, credit_cost)]
               /\ events' = [events EXCEPT ![j] = AddEvent(NoEvents, "created")]
               /\ objects' = Put({OriginalKey(j)})
               /\ client' = [client EXCEPT ![c] = Respond(c, 200, "queued")]
    /\ UNCHANGED <<now, jlock, rqQueue, worker, rq, grants, refunds, holder,
                   initBalance, scope, assets, delivered,
                   shoots,
                   provider>>

\* ------------------------------------------------------------- intake: POST /jobs/{id}/refund
\* refund_job's checks in their order: the message of the rejection, "" when
\* the refund goes ahead.
RefundJobOutcome_unmarked(j) ==
    IF jobs[j].status # "failed" THEN "Job is not in failed state"
    ELSE IF jobs[j].credits_used <= 0 THEN "No credits to refund"
    ELSE ""

RefundJobOutcome_anystate(j) ==
    IF HasEvent(j, {"credits_refunded"}) THEN "Credits already refunded for this job"
    ELSE IF jobs[j].credits_used <= 0 THEN "No credits to refund"
    ELSE ""

RefundJobOutcome(j) ==
    IF jobs[j].status # "failed" THEN "Job is not in failed state"
    ELSE IF HasEvent(j, {"credits_refunded"}) THEN "Credits already refunded for this job"
    ELSE IF jobs[j].credits_used <= 0 THEN "No credits to refund"
    ELSE ""

\* refund_job_credits and refund_job up to the credit read of refund_credits:
\* the ownership lookup (404), refund_job's checks (400).
RefundJobRead(c, j) ==
    /\ client[c].pc = "idle"
    /\ LET u == ClientUser(c) IN
       IF jobs[j].status = "absent" \/ jobs[j].user_id # u
       THEN client' = [client EXCEPT ![c] = Respond(c, 404, "Job not found")]
       ELSE IF RefundJobOutcome(j) # ""
       THEN client' = [client EXCEPT ![c] = Respond(c, 400, RefundJobOutcome(j))]
       ELSE client' = [client EXCEPT ![c] = [IdleClient EXCEPT !.pc = "rf_refunding",
                          !.job = j, !.cost = jobs[j].credits_used, !.bal = balance[u]]]
    /\ UNCHANGED <<now, hasCredit, balance, jobs, events, jlock, rqQueue, worker,
                   rq, grants, refunds, holder, initBalance, scope, objects, assets, delivered,
                   shoots,
                   provider>>

\* refund_credits' flushes and refund_job's commit: the balance read plus the
\* amount, and the credits_refunded event.
RefundJobCommit(c) ==
    /\ client[c].pc = "rf_refunding"
    /\ LET u == ClientUser(c)
           j == client[c].job IN
       /\ hasCredit' = [hasCredit EXCEPT ![u] = TRUE]
       /\ balance' = [balance EXCEPT ![u] = client[c].bal + client[c].cost]
       /\ events' = [events EXCEPT ![j] = AddEvent(@, "credits_refunded")]
       /\ refunds' = [refunds EXCEPT ![j] = @ + 1]
       /\ client' = [client EXCEPT ![c] = Respond(c, 200, "Refunded")]
    /\ UNCHANGED <<now, jobs, jlock, rqQueue, worker, rq, grants, holder, initBalance, scope, objects, assets, delivered,
                   shoots,
                   provider>>

\* ------------------------------------------------------------- webhook sink
get_credits_for_product(product_id) ==
    IF product_id = "com.lusterai.credits.small" THEN SmallBundleCredits ELSE 0

\* handle_non_renewing_purchase up to the commit: the credit row is read (a row
\* created here is dropped with the session when nothing is committed).
WebhookRead(c, product_id) ==
    /\ client[c].pc = "idle"
    /\ grants < MaxGrants
    /\ LET u == ClientUser(c)
           credits_to_add == get_credits_for_product(product_id) IN
       IF credits_to_add > 0
       THEN client' = [client EXCEPT ![c] = [IdleClient EXCEPT !.pc = "wh_granting",
                          !.cost = credits_to_add, !.bal = balance[u]]]
       ELSE client' = [client EXCEPT ![c] = Respond(c, 200, "ok")]
    /\ grants' = grants + 1
    /\ UNCHANGED <<now, hasCredit, balance, jobs, events, jlock, rqQueue, worker,
                   rq, refunds, holder, initBalance, scope, objects, assets, delivered,
                   shoots,
                   provider>>

WebhookCommit(c) ==
    /\ client[c].pc = "wh_granting"
    /\ LET u == ClientUser(c) IN
       /\ hasCredit' = [hasCredit EXCEPT ![u] = TRUE]
       /\ balance' = [balance EXCEPT ![u] = client[c].bal + client[c].cost]
       /\ client' = [client EXCEPT ![c] = Respond(c, 200, "ok")]
    /\ UNCHANGED <<now, jobs, events, jlock, rqQueue, worker, rq, grants, refunds,
                   holder, initBalance, scope, objects, assets, delivered,
                   shoots,
                   provider>>

\* ------------------------------------------------------------- polling worker
Claimable_eager(job) ==
    \/ job.status = "queued"
    \/ /\ job.status = "processing"
       /\ job.lease_expires_at # Null
       /\ job.retry_count < job.max_retries

\* The filter of poll_jobs' query.
Claimable(job) ==
    \/ job.status = "queued"
    \/ /\ job.status = "processing"
       /\ job.lease_expires_at # Null
       /\ job.lease_expires_at < now
       /\ job.retry_count < job.max_retries

PollCandidates_unlocked(w) == {j \in JobIds : Claimable(jobs[j])}

\* SELECT ... FOR UPDATE SKIP LOCKED: a row another transaction holds is passed over.
PollCandidates(w) == {j \in JobIds : Claimable(jobs[j]) /\ jlock[j] = NoOne}

\* poll_jobs returning a job (any matching row: the query has no ORDER BY), and
\* process_job's first line.
PollJobs(w, j) ==
    /\ worker[w].pc = "idle"
    /\ j \in PollCandidates(w)
    /\ jlock' = [jlock EXCEPT ![j] = w]
    /\ worker' = [worker EXCEPT ![w] = [IdleWorker EXCEPT !.pc = "polled", !.job = j,
                                          !.is_retry = (jobs[j].status = "processing")]]
    /\ UNCHANGED <<now, hasCredit, balance, jobs, events, rqQueue, client, rq, grants,
                   refunds, holder, initBalance, scope, objects, assets, delivered,
                   shoots,
                   provider>>

Exhausted_late(w) ==
    /\ worker[w].is_retry
    /\ jobs[worker[w].job].retry_count + 1 > jobs[worker[w].job].max_retries

Exhausted_unchecked(w) == FALSE

\* "if job.retry_count >= job.max_retries" after the increment of a retry.
Exhausted(w) ==
    /\ worker[w].is_retry
    /\ jobs[worker[w].job].retry_count + 1 >= jobs[worker[w].job].max_retries

\* The max-retries branch up to its credit query.
ExhaustedRead(w) ==
    /\ worker[w].pc = "polled"
    /\ Exhausted(w)
    /\ LET u == jobs[worker[w].job].user_id IN
       worker' = [worker EXCEPT ![w].pc = "exhausted", ![w].bal = balance[u],
                                ![w].refund = hasCredit[u]]
    /\ UNCHANGED <<now, hasCredit, balance, jobs, events, jlock, rqQueue, client, rq,
                   grants, refunds, holder, initBalance, scope, objects, assets, delivered,
                   shoots,
                   provider>>

\* The commit of the max-retries branch: failed, lease cleared, credits added back.
ExhaustedCommit(w) ==
    /\ worker[w].pc = "exhausted"
    /\ LET j == worker[w].job
           u == jobs[j].user_id IN
       /\ jobs' = [jobs EXCEPT ![j].retry_count = @ + 1,
                               ![j].status = "failed",
                               ![j].error_message = "max retries exceeded",
                               ![j].lease_expires_at = Null]
       /\ IF worker[w].refund
          THEN /\ balance' = [balance EXCEPT ![u] = worker[w].bal + jobs[j].credits_used]
               /\ refunds' = [refunds EXCEPT ![j] = @ + 1]
          ELSE UNCHANGED <<balance, refunds>>
       /\ jlock' = [jlock EXCEPT ![j] = NoOne]
       /\ worker' = [worker EXCEPT ![w] = [IdleWorker EXCEPT !.pc = "exhausted_event", !.job = j]]
    /\ UNCHANGED <<now, hasCredit, events, rqQueue, client, rq, grants, holder,
                   initBalance, scope, objects, assets, delivered,
                   shoots,
                   provider>>

AddMaxRetriesEvent(w) ==
    /\ worker[w].pc = "exhausted_event"
    /\ events' = [events EXCEPT ![worker[w].job] = AddEvent(@, "max_retries_exceeded")]
    /\ worker' = [worker EXCEPT ![w] = IdleWorker]
    /\ UNCHANGED <<now, hasCredit, balance, jobs, jlock, rqQueue, client, rq, grants,
                   refunds, holder, initBalance, scope, objects, assets, delivered,
                   shoots,
                   provider>>

\* The claim: processing, started_at, a fresh lease, retry_count incremented on
\* a retry; the commit releases the row lock of the poll.
ClaimedJob_uncounted(job, is_retry) ==
    [job EXCEPT !.status = "processing",
                !.started_at = now,
                !.lease_expires_at = now + LEASE_DURATION_MINUTES]

ClaimedJob_requeued(job, is_retry) ==
    [job EXCEPT !.status = IF is_retry THEN "queued" ELSE "processing",
                !.started_at = now,
                !.lease_expires_at = IF is_retry THEN Null ELSE now + LEASE_DURATION_MINUTES,
                !.retry_count = IF is_retry THEN @ + 1 ELSE @]

ClaimedJob(job, is_retry) ==
    [job EXCEPT !.status = "processing",
                !.started_at = now,
                !.lease_expires_at = now + LEASE_DURATION_MINUTES,
                !.retry_count = IF is_retry THEN @ + 1 ELSE @]

ProcessJobClaim_rereserve(w) ==
    /\ worker[w].pc = "polled"
    /\ ~Exhausted(w)
    /\ LET j == worker[w].job IN
       /\ jobs' = [jobs EXCEPT ![j] = ClaimedJob(jobs[j], worker[w].is_retry)]
       /\ balance' = [balance EXCEPT ![jobs[j].user_id] =
                          IF worker[w].is_retry THEN @ - jobs[j].credits_used ELSE @]
       /\ jlock' = [jlock EXCEPT ![j] = NoOne]
       /\ holder' = [holder EXCEPT ![j] = w]
       /\ worker' = [worker EXCEPT ![w].pc = "claimed"]
    /\ UNCHANGED <<now, hasCredit, events, rqQueue, client, rq, grants,
                   refunds, initBalance, scope, objects, assets, delivered,
                   shoots,
                   provider>>

ProcessJobClaim(w) ==
    /\ worker[w].pc = "polled"
    /\ ~Exhausted(w)
    /\ LET j == worker[w].job IN
       /\ jobs' = [jobs EXCEPT ![j] = ClaimedJob(jobs[j], worker[w].is_retry)]
       /\ jlock' = [jlock EXCEPT ![j] = NoOne]
       /\ holder' = [holder EXCEPT ![j] = w]
       /\ worker' = [worker EXCEPT ![w].pc = "claimed"]
    /\ UNCHANGED <<now, hasCredit, balance, events, rqQueue, client, rq, grants,
                   refunds, initBalance, scope, objects, assets, delivered,
                   shoots,
                   provider>>

\* add_job_event("started"), then the reload of the expired job object at its
\* next attribute access: the session now holds the row as committed.
AddStartedEvent(w) ==
    /\ worker[w].pc = "claimed"
    /\ LET j == worker[w].job IN
       /\ events' = [events EXCEPT ![j] = AddEvent(@, IF worker[w].is_retry THEN "started_retry" ELSE "started")]
       /\ worker' = [worker EXCEPT ![w].pc = "processing",
                                   ![w].seen_status = jobs[j].status,
                                   ![w].seen_lease = jobs[j].lease_expires_at]
    /\ UNCHANGED <<now, hasCredit, balance, jobs, jlock, rqQueue, client, rq, grants,
                   refunds, holder, initBalance, scope, objects, assets, delivered,
                   shoots,
                   provider>>

\* The UPDATE of a finalization: a column is written when the value assigned
\* differs from the value the session loaded.
Finalized(job, seen_status, seen_lease, status, clear_lease) ==
    [job EXCEPT !.status = IF seen_status # status THEN status ELSE @,
                !.lease_expires_at = IF clear_lease /\ seen_lease # Null THEN Null ELSE @,
                !.output_path = IF status = "succeeded" THEN TRUE ELSE @,
                !.error_message = IF status = "failed" THEN "processing failed" ELSE @]

\* The original is fetched, the provider returns an image and the image is
\* stored under the job's output key, replacing what the key held.
UploadOutput(w) ==
    /\ worker[w].pc = "processing"
    /\ scope.storage
    /\ OriginalKey(worker[w].job) \in objects
    /\ objects' = Put({OutputKey(worker[w].job)})
    /\ worker' = [worker EXCEPT ![w].pc = "uploaded"]
    /\ UNCHANGED <<now, hasCredit, balance, jobs, events, jlock, rqQueue, client, rq,
                   grants, refunds, holder, initBalance, scope, assets, delivered,
                   shoots,
                   provider>>

\* The job is committed as succeeded.  No lease or status condition guards the
\* UPDATE.
FinishSuccess(w) ==
    /\ worker[w].pc = IF scope.storage THEN "uploaded" ELSE "processing"
    /\ LET j == worker[w].job IN
       /\ jlock[j] = NoOne
       /\ jobs' = [jobs EXCEPT ![j] = Finalized(jobs[j], worker[w].seen_status,
                                                worker[w].seen_lease, "succeeded", TRUE)]
       /\ worker' = [worker EXCEPT ![w] = [IdleWorker EXCEPT !.pc = "done_ok", !.job = j]]
    /\ UNCHANGED <<now, hasCredit, balance, events, jlock, rqQueue, client, rq, grants,
                   refunds, holder, initBalance, scope, objects, assets, delivered,
                   shoots,
                   provider>>

\* add_job_event("completed"), then the original is deleted from storage.
AddCompletedEvent(w) ==
    /\ worker[w].pc = "done_ok"
    /\ events' = [events EXCEPT ![worker[w].job] = AddEvent(@, "completed")]
    /\ objects' = objects \ {OriginalKey(worker[w].job)}
    /\ worker' = [worker EXCEPT ![w] = IdleWorker]
    /\ UNCHANGED <<now, hasCredit, balance, jobs, jlock, rqQueue, client, rq, grants,
                   refunds, holder, initBalance, scope, assets, delivered,
                   shoots,
                   provider>>

\* The except branch up to its commit: the marker query (credits_refunded
\* only) and the credit query.
FinishFailureRead(w) ==
    /\ worker[w].pc = "processing"
    /\ LET j == worker[w].job
           u == jobs[j].user_id IN
       worker' = [worker EXCEPT ![w].pc = "failing", ![w].bal = balance[u],
                     ![w].refund = (~HasEvent(j, {"credits_refunded"}) /\ hasCredit[u])]
    /\ UNCHANGED <<now, hasCredit, balance, jobs, events, jlock, rqQueue, client, rq,
                   grants, refunds, holder, initBalance, scope, objects, assets, delivered,
                   shoots,
                   provider>>

FinishFailureCommit(w) ==
    /\ worker[w].pc = "failing"
    /\ LET j == worker[w].job
           u == jobs[j].user_id IN
       /\ jlock[j] = NoOne
       /\ jobs' = [jobs EXCEPT ![j] = Finalized(jobs[j], worker[w].seen_status,
                                                worker[w].seen_lease, "failed", TRUE)]
       /\ IF worker[w].refund
          THEN /\ balance' = [balance EXCEPT ![u] = worker[w].bal + jobs[j].credits_used]
               /\ refunds' = [refunds EXCEPT ![j] = @ + 1]
          ELSE UNCHANGED <<balance, refunds>>
       /\ worker' = [worker EXCEPT ![w] = [IdleWorker EXCEPT !.pc = "done_fail", !.job = j]]
    /\ UNCHANGED <<now, hasCredit, events, jlock, rqQueue, client, rq, grants, holder,
                   initBalance, scope, objects, assets, delivered,
                   shoots,
                   provider>>

\* add_job_event("failed"), then the original is deleted from storage.
AddFailedEvent(w) ==
    /\ worker[w].pc = "done_fail"
    /\ events' = [events EXCEPT ![worker[w].job] = AddEvent(@, "failed")]
    /\ objects' = objects \ {OriginalKey(worker[w].job)}
    /\ worker' = [worker EXCEPT ![w] = IdleWorker]
    /\ UNCHANGED <<now, hasCredit, balance, jobs, jlock, rqQueue, client, rq, grants,
                   refunds, holder, initBalance, scope, assets, delivered,
                   shoots,
                   provider>>

\* The worker process dies and is restarted: the open transaction is rolled
\* back, its row lock released.
WorkerCrash(w) ==
    /\ worker[w].pc # "idle"
    /\ jlock' = [j \in JobIds |-> IF jlock[j] = w THEN NoOne ELSE jlock[j]]
    /\ worker' = [worker EXCEPT ![w] = IdleWorker]
    /\ UNCHANGED <<now, hasCredit, balance, jobs, events, rqQueue, client, rq, grants,
                   refunds, holder, initBalance, scope, objects, assets, delivered,
                   shoots,
                   provider>>

\* ------------------------------------------------------------- sweep
RECURSIVE SumCredits(_)
SumCredits(S) ==
    IF S = {} THEN 0
    ELSE LET j == CHOOSE k \in S : TRUE IN jobs[j].credits_used + SumCredits(S \ {j})

\* The filter of cleanup_stuck_jobs' query.
Stuck(job) ==
    /\ job.status = "processing"
    /\ job.lease_expires_at # Null
    /\ job.lease_expires_at < now
    /\ job.retry_count >= job.max_retries

\* cleanup_stuck_jobs, run by the worker loop between two jobs: every stuck
\* job is set failed with the lease cleared, refunded unless an event
\* credits_refunded or max_retries_exceeded exists, a cleanup event is added,
\* and one commit ends the loop.  With no stuck job nothing is written.
CleanupStuckJobs(w) ==
    /\ worker[w].pc = "idle"
    /\ LET stuck_jobs == {j \in JobIds : Stuck(jobs[j])}
           refundable == {j \in stuck_jobs :
                             /\ ~HasEvent(j, {"credits_refunded", "max_retries_exceeded"})
                             /\ hasCredit[jobs[j].user_id]
                             /\ jobs[j].credits_used # 0} IN
       /\ \A j \in stuck_jobs : jlock[j] = NoOne
       /\ jobs' = [j \in JobIds |->
                     IF j \in stuck_jobs
                     THEN [jobs[j] EXCEPT !.status = "failed",
                                          !.error_message = "max retries exceeded, cleaned up",
                                          !.lease_expires_at = Null]
                     ELSE jobs[j]]
       /\ balance' = [u \in Users |->
                        balance[u] + SumCredits({j \in refundable : jobs[j].user_id = u})]
       /\ refunds' = [j \in JobIds |-> IF j \in refundable THEN refunds[j] + 1 ELSE refunds[j]]
       /\ events' = [j \in JobIds |->
                       IF j \in stuck_jobs
                       THEN AddEvent(events[j], "cleanup_max_retries")
                       ELSE events[j]]
    /\ UNCHANGED <<now, hasCredit, jlock, rqQueue, client, worker, rq, grants, holder,
                   initBalance, scope, objects, assets, delivered,
                   shoots,
                   provider>>

\* ------------------------------------------------------------- RQ worker
\* process_image_enhancement(job_id) up to its first commit: whatever the
\* job's status, it is set to processing with started_at; the lease columns
\* are not touched.
RQStart(j) ==
    /\ rq.pc = "idle"
    /\ j \in rqQueue
    /\ jlock[j] = NoOne
    /\ rqQueue' = rqQueue \ {j}
    /\ jobs' = [jobs EXCEPT ![j].status = "processing", ![j].started_at = now]
    /\ rq' = [IdleWorker EXCEPT !.pc = "claimed", !.job = j]
    /\ UNCHANGED <<now, hasCredit, balance, events, jlock, client, worker, grants,
                   refunds, holder, initBalance, scope, objects, assets, delivered,
                   shoots,
                   provider>>

RQAddStartedEvent ==
    /\ rq.pc = "claimed"
    /\ events' = [events EXCEPT ![rq.job] = AddEvent(@, "started")]
    /\ rq' = [rq EXCEPT !.pc = "processing",
                        !.seen_status = jobs[rq.job].status,
                        !.seen_lease = jobs[rq.job].lease_expires_at]
    /\ UNCHANGED <<now, hasCredit, balance, jobs, jlock, rqQueue, client, worker,
                   grants, refunds, holder, initBalance, scope, objects, assets, delivered,
                   shoots,
                   provider>>

\* Success: the provider wrote outputs/{job.id}.jpg from the original; status,
\* output_path and completed_at are committed; the lease is left as it is.
RQFinishSuccess ==
    /\ rq.pc = "processing"
    /\ jlock[rq.job] = NoOne
    /\ Stored(OriginalKey(rq.job))
    /\ objects' = Put({OutputKey(rq.job)})
    /\ jobs' = [jobs EXCEPT ![rq.job] = Finalized(jobs[rq.job], rq.seen_status,
                                                  rq.seen_lease, "succeeded", FALSE)]
    /\ rq' = [IdleWorker EXCEPT !.pc = "done_ok", !.job = rq.job]
    /\ UNCHANGED <<now, hasCredit, balance, events, jlock, rqQueue, client, worker,
                   grants, refunds, holder, initBalance, scope, assets, delivered,
                   shoots,
                   provider>>

RQAddCompletedEvent ==
    /\ rq.pc = "done_ok"
    /\ events' = [events EXCEPT ![rq.job] = AddEvent(@, "completed")]
    /\ rq' = IdleWorker
    /\ UNCHANGED <<now, hasCredit, balance, jobs, jlock, rqQueue, client, worker,
                   grants, refunds, holder, initBalance, scope, objects, assets, delivered,
                   shoots,
                   provider>>

\* The except branch: the job object of the session (not reloaded), the marker
\* query and the credit query.
RQFinishFailureRead ==
    /\ rq.pc = "processing"
    /\ LET u == jobs[rq.job].user_id IN
       rq' = [rq EXCEPT !.pc = "failing", !.bal = balance[u],
                 !.refund = (~HasEvent(rq.job, {"credits_refunded"}) /\ hasCredit[u])]
    /\ UNCHANGED <<now, hasCredit, balance, jobs, events, jlock, rqQueue, client,
                   worker, grants, refunds, holder, initBalance, scope, objects, assets, delivered,
                   shoots,
                   provider>>

RQFinishFailureCommit ==
    /\ rq.pc = "failing"
    /\ LET j == rq.job
           u == jobs[j].user_id IN
       /\ jlock[j] = NoOne
       /\ jobs' = [jobs EXCEPT ![j] = Finalized(jobs[j], rq.seen_status, rq.seen_lease,
                                                "failed", FALSE)]
       /\ IF rq.refund
          THEN /\ balance' = [balance EXCEPT ![u] = rq.bal + jobs[j].credits_used]
               /\ refunds' = [refunds EXCEPT ![j] = @ + 1]
          ELSE UNCHANGED <<balance, refunds>>
       /\ rq' = [IdleWorker EXCEPT !.pc = "done_fail", !.job = j]
    /\ UNCHANGED <<now, hasCredit, events, jlock, rqQueue, client, worker, grants,
                   holder, initBalance, scope, objects, assets, delivered,
                   shoots,
                   provider>>

RQAddFailedEvent ==
    /\ rq.pc = "done_fail"
    /\ events' = [events EXCEPT ![rq.job] = AddEvent(@, "failed")]
    /\ rq' = IdleWorker
    /\ UNCHANGED <<now, hasCredit, balance, jobs, jlock, rqQueue, client, worker,
                   grants, refunds, holder, initBalance, scope, objects, assets, delivered,
                   shoots,
                   provider>>

\* The RQ worker dies in the middle of a job; RQ does not run the job again.
RQCrash ==
    /\ rq.pc # "idle"
    /\ rq' = IdleWorker
    /\ UNCHANGED <<now, hasCredit, balance, jobs, events, jlock, rqQueue, client,
                   worker, grants, refunds, holder, initBalance, scope, objects, assets, delivered,
                   shoots,
                   provider>>

\* ------------------------------------------------------------- time
Tick ==
    /\ now + TickMinutes <= scope.ticks * TickMinutes
    /\ now' = now + TickMinutes
    /\ UNCHANGED <<hasCredit, balance, jobs, events, jlock, rqQueue, client, worker,
                   rq, grants, refunds, holder, initBalance, scope, objects, assets, delivered,
                   shoots,
                   provider>>

\* ------------------------------------------------------------- specifications
\* The lifecycle of one job: POST /jobs and POST /jobs/{id}/refund from one
\* client, both polling workers, the RQ worker, one lease expiry (the retry budget
\* is not exhausted).
Init == InitWith([jobs |-> {"j1"}, audit |-> FALSE, ticks |-> ShortTicks, storage |-> FALSE])

Next ==
    \/ \E t \in Tiers : CreateJobRead("c1", t)
    \/ \E e \in BOOLEAN : CreateJobCommit("c1", e)
    \/ \E j \in JobIds : RefundJobRead("c1", j)
    \/ RefundJobCommit("c1")
    \/ \E w \in Workers, j \in JobIds : PollJobs(w, j)
    \/ \E w \in Workers : ProcessJobClaim(w)
    \/ \E w \in Workers : AddStartedEvent(w)
    \/ \E w \in Workers : FinishSuccess(w)
    \/ \E w \in Workers : AddCompletedEvent(w)
    \/ \E w \in Workers : FinishFailureRead(w)
    \/ \E w \in Workers : FinishFailureCommit(w)
    \/ \E w \in Workers : AddFailedEvent(w)
    \/ \E w \in Workers : WorkerCrash(w)
    \/ \E w \in Workers : CleanupStuckJobs(w)
    \/ \E j \in JobIds : RQStart(j)
    \/ RQAddStartedEvent
    \/ RQFinishSuccess
    \/ RQAddCompletedEvent
    \/ RQFinishFailureRead
    \/ RQFinishFailureCommit
    \/ RQAddFailedEvent
    \/ RQCrash
    \/ Tick

Spec == Init /\ [][Next]_vars

\* The retry budget: one premium job, both polling workers and the RQ worker,
\* as many lease expiries as the budget has attempts.
InitRetry == InitWith([jobs |-> {"j1"}, audit |-> FALSE, ticks |-> MaxTicks, storage |-> FALSE])

NextRetry ==
    \/ CreateJobRead("c1", "premium")
    \/ \E e \in BOOLEAN : CreateJobCommit("c1", e)
    \/ \E w \in Workers, j \in JobIds : PollJobs(w, j)
    \/ \E w \in Workers : ExhaustedRead(w)
    \/ \E w \in Workers : ExhaustedCommit(w)
    \/ \E w \in Workers : AddMaxRetriesEvent(w)
    \/ \E w \in Workers : ProcessJobClaim(w)
    \/ \E w \in Workers : AddStartedEvent(w)
    \/ \E w \in Workers : FinishSuccess(w)
    \/ \E w \in Workers : AddCompletedEvent(w)
    \/ \E w \in Workers : FinishFailureRead(w)
    \/ \E w \in Workers : FinishFailureCommit(w)
    \/ \E w \in Workers : AddFailedEvent(w)
    \/ \E w \in Workers : WorkerCrash(w)
    \/ \E w \in Workers : CleanupStuckJobs(w)
    \/ \E j \in JobIds : RQStart(j)
    \/ RQAddStartedEvent
    \/ RQFinishSuccess
    \/ RQAddCompletedEvent
    \/ RQFinishFailureRead
    \/ RQFinishFailureCommit
    \/ RQAddFailedEvent
    \/ RQCrash
    \/ Tick

SpecRetry == InitRetry /\ [][NextRetry]_vars

\* The claim: two jobs from the mobile endpoints (which enqueue nothing, here at
\* a credit_cost of 1 or more), both
\* polling workers, one lease expiry (the retry budget is not exhausted).
InitClaim == InitWith([jobs |-> JobIds, audit |-> FALSE, ticks |-> ShortTicks, storage |-> FALSE])

NextClaim ==
    \/ \E k \in 1..MaxCreditCost : MobileEnhance("c1", k)
    \/ \E w \in Workers, j \in JobIds : PollJobs(w, j)
    \/ \E w \in Workers : ProcessJobClaim(w)
    \/ \E w \in Workers : AddStartedEvent(w)
    \/ \E w \in Workers : FinishSuccess(w)
    \/ \E w \in Workers : AddCompletedEvent(w)
    \/ \E w \in Workers : FinishFailureRead(w)
    \/ \E w \in Workers : FinishFailureCommit(w)
    \/ \E w \in Workers : AddFailedEvent(w)
    \/ \E w \in Workers : WorkerCrash(w)
    \/ Tick

SpecClaim == InitClaim /\ [][NextClaim]_vars

\* The ledger: two clients creating jobs through POST /jobs and the mobile
\* endpoints, refund requests from the first, purchase webhooks through the
\* second, one polling worker finishing the jobs, no lease expiry.
InitIntake == InitWith([jobs |-> JobIds, audit |-> FALSE, ticks |-> 0, storage |-> FALSE])

NextIntake ==
    \/ \E c \in Clients, t \in Tiers : CreateJobRead(c, t)
    \/ \E c \in Clients : CreateJobCommit(c, FALSE)
    \/ \E c \in Clients, k \in CreditCosts : MobileEnhance(c, k)
    \/ \E j \in JobIds : RefundJobRead("c1", j)
    \/ RefundJobCommit("c1")
    \/ \E p \in Products : WebhookRead("c2", p)
    \/ WebhookCommit("c2")
    \/ \E j \in JobIds : PollJobs("w1", j)
    \/ ProcessJobClaim("w1")
    \/ AddStartedEvent("w1")
    \/ FinishSuccess("w1")
    \/ AddCompletedEvent("w1")
    \/ FinishFailureRead("w1")
    \/ FinishFailureCommit("w1")
    \/ AddFailedEvent("w1")

SpecIntake == InitIntake /\ [][NextIntake]_vars

\* Refunds asked one after the other: one client, one job from the mobile
\* endpoints, one polling worker finishing it, every event recorded.
InitRefund == InitWith([jobs |-> {"j1"}, audit |-> TRUE, ticks |-> 0, storage |-> FALSE])

NextRefund ==
    \/ \E k \in CreditCosts : MobileEnhance("c1", k)
    \/ \E j \in JobIds : RefundJobRead("c1", j)
    \/ RefundJobCommit("c1")
    \/ \E j \in JobIds : PollJobs("w1", j)
    \/ ProcessJobClaim("w1")
    \/ AddStartedEvent("w1")
    \/ FinishSuccess("w1")
    \/ AddCompletedEvent("w1")
    \/ FinishFailureRead("w1")
    \/ FinishFailureCommit("w1")
    \/ AddFailedEvent("w1")

SpecRefund == InitRefund /\ [][NextRefund]_vars

\* Two POST /jobs requests side by side: each client sends one request, at any
\* tier, against any initial balance; the RQ worker runs what was enqueued.
InitCreate == InitWith([jobs |-> JobIds, audit |-> FALSE, ticks |-> 0, storage |-> FALSE])

NextCreate ==
    \/ \E c \in Clients, t \in Tiers : client[c].code = 0 /\ CreateJobRead(c, t)
    \/ \E c \in Clients, e \in BOOLEAN : CreateJobCommit(c, e)
    \/ \E j \in JobIds : RQStart(j)
    \/ RQAddStartedEvent
    \/ RQFinishSuccess
    \/ RQAddCompletedEvent

SpecCreate == InitCreate /\ [][NextCreate]_vars

\* ------------------------------------------------------------- properties
\* C1: in every reachable state every user's credit balance is >= 0, whatever
\* the interleaving of job creation (POST /jobs, the mobile endpoints), worker
\* finalization and refund_job calls.
C1_NonNegativeBalance == \A u \in Users : balance[u] >= 0

\* C2: for a user who starts with balance 2, once two parallel POST /jobs
\* requests have been answered and every job created is a premium job, exactly
\* one job exists, the balance is 0, one request was answered 200 and the
\* other 402.
Answered(c) == client[c].pc = "idle" /\ client[c].code # 0

C2_ParallelPremium ==
    ( /\ initBalance["u1"] = PremiumCost
      /\ Answered("c1") /\ Answered("c2")
      /\ \A j \in Created : jobs[j].credits_used = PremiumCost )
    => /\ Cardinality(Created) = 1
       /\ balance["u1"] = 0
       /\ {client["c1"].code, client["c2"].code} = {200, 402}

\* C3: for every job in a terminal state, the reservation plus the refunds
\* applied for it net to 0 when the job is failed and to -credits_used when it
\* is succeeded.
NetDelta(j) == (refunds[j] - 1) * jobs[j].credits_used

C3_NetCreditDelta ==
    \A j \in Created :
        /\ jobs[j].status = "failed" => NetDelta(j) = 0
        /\ jobs[j].status = "succeeded" => NetDelta(j) = 0 - jobs[j].credits_used

\* C4: for any job, credits_used is added back to the owner's balance at most
\* once, and at most one refund marker is recorded, across all refund paths.
RefundMarkers(j) == events[j]["credits_refunded"] + events[j]["max_retries_exceeded"]

C4_AtMostOneRefund ==
    \A j \in JobIds : refunds[j] <= 1 /\ RefundMarkers(j) <= 1

\* C5: once a worker has finalized a job as failed and refunded its credits, a
\* POST /jobs/{id}/refund for the job is answered 400 "already refunded" and
\* no refund of the endpoint is committed for it.
C5_RefundAfterAutoRefund ==
    [][ /\ \A j \in JobIds :
             (RefundJobRead("c1", j) /\ jobs[j].status = "failed" /\ refunds[j] > 0
                                     /\ jobs[j].credits_used > 0)
             => /\ client'["c1"].code = 400
                /\ client'["c1"].msg = "Credits already refunded for this job"
        /\ \A j \in JobIds :
             (RefundJobCommit("c1") /\ client["c1"].job = j) => refunds[j] = 0 ]_vars

\* C8: while a job is processing under an unexpired lease, a step that changes
\* the job's status, output_path, error_message or lease is a step of the
\* worker that committed the claim.
Guarded(job) == <<job.status, job.output_path, job.error_message, job.lease_expires_at>>

C8_LeaseExclusive ==
    [][ \A j \in JobIds :
          (LeaseLive(j) /\ Guarded(jobs'[j]) # Guarded(jobs[j]))
          => /\ holder[j] \in Workers
             /\ worker'[holder[j]] # worker[holder[j]] ]_vars

\* C9: a job that is succeeded or failed keeps that status in every later
\* step, and its lease_expires_at is null.
C9_TerminalFinal ==
    [][ \A j \in JobIds :
          /\ Terminal(j) => jobs'[j].status = jobs[j].status
          /\ (jobs'[j].status \in {"succeeded", "failed"}) => jobs'[j].lease_expires_at = Null ]_vars

\* C6: refund_job called again and again, one call after the other, on a
\* failed job with credits_used > 0 and no refund of the endpoint yet: the
\* first call goes ahead and its commit adds credits_used to the balance once
\* and records the one credits_refunded event; every later call is answered
\* 400 "already refunded" and changes neither the balance nor the events.
C6_SequentialRefund ==
    [][ \A j \in JobIds :
          /\ (RefundJobRead("c1", j) /\ jobs[j].status = "failed"
                 /\ jobs[j].credits_used > 0 /\ events[j]["credits_refunded"] = 0)
             => client'["c1"].pc = "rf_refunding"
          /\ (RefundJobCommit("c1") /\ client["c1"].job = j)
             => /\ events[j]["credits_refunded"] = 0
                /\ events'[j]["credits_refunded"] = 1
                /\ balance'["u1"] = balance["u1"] + jobs[j].credits_used
          /\ (RefundJobRead("c1", j) /\ events[j]["credits_refunded"] > 0)
             => /\ client'["c1"].code = 400
                /\ client'["c1"].msg = "Credits already refunded for this job"
                /\ balance' = balance /\ events' = events ]_vars

C6_Witness ==
    \E j \in JobIds :
        /\ jobs[j].status = "failed" /\ jobs[j].credits_used > 0
        /\ events[j]["credits_refunded"] = 1
        /\ client["c1"].code = 400
        /\ client["c1"].msg = "Credits already refunded for this job"

\* C7: among concurrently polling workers, the row a poll returns is held by
\* no other worker and is claimable; a claim (processing with a fresh lease)
\* is committed only by the worker holding the row, out of a claimable state,
\* so never on a job another worker holds under an unexpired lease; and no two
\* workers are between poll and claim commit on the same job.
Holding(w, j) == worker[w].pc \in {"polled", "exhausted"} /\ worker[w].job = j

C7_ClaimExclusive ==
    [][ \A j \in JobIds :
          /\ \A w1, w2 \in Workers : (Holding(w1, j)' /\ Holding(w2, j)') => w1 = w2
          /\ \A w \in Workers :
               (~Holding(w, j) /\ Holding(w, j)')
               => /\ Claimable(jobs[j])
                  /\ \A w2 \in Workers : ~Holding(w2, j)
          /\ (jobs'[j].lease_expires_at # Null
                 /\ jobs'[j].lease_expires_at # jobs[j].lease_expires_at)
             => /\ Claimable(jobs[j])
                /\ ~LeaseLive(j)
                /\ \E w \in Workers : Holding(w, j) /\ holder'[j] = w
                                         /\ worker'[w].pc = "claimed" ]_vars

C7_Witness ==
    /\ Holding("w1", "j1")
    /\ worker["w2"].pc = "claimed" /\ worker["w2"].job = "j2"
    /\ LeaseLive("j2") /\ holder["j2"] = "w2"

\* C10: retry_count never exceeds max_retries, and the step that brings
\* retry_count to max_retries does not set the job processing: it commits the
\* job as failed with the lease cleared and writes the owner's balance as the
\* balance read plus credits_used.
C10_RetryBudget ==
    [][ \A j \in JobIds :
          /\ jobs'[j].retry_count <= jobs'[j].max_retries
          /\ (jobs[j].retry_count < jobs[j].max_retries
                 /\ jobs'[j].retry_count = jobs'[j].max_retries)
             => /\ jobs'[j].status = "failed"
                /\ jobs'[j].lease_expires_at = Null
                /\ refunds'[j] = refunds[j] + 1
                /\ \E w \in Workers :
                     /\ worker[w].pc = "exhausted" /\ worker[w].job = j
                     /\ balance'[jobs[j].user_id] = worker[w].bal + jobs[j].credits_used ]_vars

C10_Witness ==
    \E j \in JobIds :
        /\ jobs[j].status = "failed"
        /\ jobs[j].retry_count = jobs[j].max_retries
        /\ jobs[j].error_message = "max retries exceeded"
        /\ refunds[j] >= 1

\* ------------------------------------------------------------- crashing workers
\* A worker that dies while it holds a claim, before it finalizes the job.
CrashWhileProcessing(w) ==
    /\ worker[w].pc \in {"claimed", "processing", "uploaded"}
    /\ WorkerCrash(w)

\* The poll interval (seconds) is far shorter than a lease (minutes): by the
\* time a further lease length has passed, the pollers have picked up and
\* claimed what was claimable.
TickAfterPoll ==
    /\ \A j \in JobIds : ~Claimable(jobs[j])
    /\ \A w \in Workers : worker[w].pc \notin {"polled", "exhausted"}
    /\ Tick

\* One job from the mobile endpoints whose every processing attempt ends in a
\* crash or never returns: no worker finalizes a job it claimed.
InitCrash == InitWith([jobs |-> {"j1"}, audit |-> TRUE, ticks |-> MaxTicks, storage |-> FALSE])

WorkerStepCrash(w) ==
    \/ \E j \in JobIds : PollJobs(w, j)
    \/ ExhaustedRead(w)
    \/ ExhaustedCommit(w)
    \/ AddMaxRetriesEvent(w)
    \/ ProcessJobClaim(w)
    \/ AddStartedEvent(w)
    \/ CleanupStuckJobs(w)

NextCrash ==
    \/ \E k \in 1..MaxCreditCost : MobileEnhance("c1", k)
    \/ \E w \in Workers : WorkerStepCrash(w)
    \/ \E w \in Workers : CrashWhileProcessing(w)
    \/ TickAfterPoll

\* The run loop of each worker process keeps polling, the clock keeps running,
\* and a worker holding a claim does crash (and is restarted) in the end.
FairCrash ==
    /\ \A w \in Workers : WF_vars(WorkerStepCrash(w))
    /\ \A w \in Workers : WF_vars(CrashWhileProcessing(w))
    /\ WF_vars(TickAfterPoll)

SpecCrash == InitCrash /\ [][NextCrash]_vars /\ FairCrash

\* C11: a job with max_retries = 3 whose every claim ends without completion:
\* the provider is started at most three times, a job that is failed has had
\* its credits added back exactly once, and a job claimed at the start of the
\* run is failed after the third lease expiry.
StartedEvents(j) == events[j]["started"] + events[j]["started_retry"]

C11_RetryExhaustion ==
    /\ [](\A j \in JobIds :
            /\ StartedEvents(j) <= MAX_RETRIES
            /\ jobs[j].status = "failed"
               => /\ refunds[j] = 1
                  /\ jobs[j].retry_count = jobs[j].max_retries
                  /\ balance[jobs[j].user_id] = initBalance[jobs[j].user_id])
    /\ \A j \in JobIds :
          (jobs[j].status = "processing" /\ now = 0) ~> (jobs[j].status = "failed")

C11_Witness ==
    \E j \in JobIds :
        /\ jobs[j].status = "failed"
        /\ jobs[j].retry_count = MAX_RETRIES
        /\ StartedEvents(j) = MAX_RETRIES
        /\ events[j]["max_retries_exceeded"] = 1
        /\ refunds[j] = 1
        /\ now = MaxTicks * TickMinutes

\* ------------------------------------------------------------- reclaim
\* One job from the mobile endpoints, both polling workers, attempts that
\* crash or succeed, every event recorded.
InitReclaim == InitWith([jobs |-> {"j1"}, audit |-> TRUE, ticks |-> ShortTicks, storage |-> FALSE])

NextReclaim ==
    \/ \E k \in 1..MaxCreditCost : MobileEnhance("c1", k)
    \/ \E w \in Workers, j \in JobIds : PollJobs(w, j)
    \/ \E w \in Workers : ProcessJobClaim(w)
    \/ \E w \in Workers : AddStartedEvent(w)
    \/ \E w \in Workers : FinishSuccess(w)
    \/ \E w \in Workers : AddCompletedEvent(w)
    \/ \E w \in Workers : CrashWhileProcessing(w)
    \/ Tick

SpecReclaim == InitReclaim /\ [][NextReclaim]_vars

\* C12: a job claimed by W1 is reclaimed only once its lease has expired; the
\* reclaim commits status processing with retry_count one higher and a new
\* lease; and when the reclaimer of a job first claimed by a worker that
\* crashed commits success, the job is succeeded with its credits debited once
\* and one started event marked is_retry.
C12_ReclaimThenSucceed ==
    [][ \A j \in JobIds :
          /\ (jobs'[j].retry_count # jobs[j].retry_count)
             => /\ jobs[j].status = "processing"
                /\ jobs[j].lease_expires_at # Null
                /\ jobs[j].lease_expires_at < now
                /\ jobs'[j].status = "processing"
                /\ jobs'[j].retry_count = jobs[j].retry_count + 1
                /\ jobs'[j].lease_expires_at = now + LEASE_DURATION_MINUTES
          /\ \A w \in Workers :
               (FinishSuccess(w) /\ worker[w].job = j /\ holder[j] = w
                   /\ jobs[j].retry_count = 1)
               => /\ jobs'[j].status = "succeeded"
                  /\ jobs'[j].lease_expires_at = Null
                  /\ refunds'[j] = 0
                  /\ balance'[jobs[j].user_id]
                       = initBalance[jobs[j].user_id] - jobs[j].credits_used
                  /\ events'[j]["started_retry"] = 1 ]_vars

C12_Witness ==
    /\ jobs["j1"].status = "succeeded"
    /\ jobs["j1"].retry_count = 1
    /\ worker["w2"].pc = "done_ok" /\ worker["w2"].job = "j1" /\ holder["j1"] = "w2"
    /\ worker["w1"].pc = "idle"
    /\ events["j1"]["started"] = 1 /\ events["j1"]["started_retry"] = 1
    /\ balance["u1"] = initBalance["u1"] - jobs["j1"].credits_used

\* ------------------------------------------------------------- storage
\* One job from the mobile endpoints with its original in storage, both polling
\* workers, attempts that crash or succeed, one lease expiry.
InitUpload == InitWith([jobs |-> {"j1"}, audit |-> TRUE, ticks |-> ShortTicks, storage |-> TRUE])

NextUpload ==
    \/ \E k \in 1..MaxCreditCost : MobileEnhance("c1", k)
    \/ \E w \in Workers, j \in JobIds : PollJobs(w, j)
    \/ \E w \in Workers : ProcessJobClaim(w)
    \/ \E w \in Workers : AddStartedEvent(w)
    \/ \E w \in Workers : UploadOutput(w)
    \/ \E w \in Workers : FinishSuccess(w)
    \/ \E w \in Workers : AddCompletedEvent(w)
    \/ \E w \in Workers : CrashWhileProcessing(w)
    \/ Tick

SpecUpload == InitUpload /\ [][NextUpload]_vars

\* C13: a job whose output was uploaded by a worker that died before the
\* success commit is still processing under a lease with retries left, and
\* its original is still in storage; every upload for the job leaves exactly
\* one output object, under the job's key; and the success commit of the
\* worker holding the claim follows an upload of its own and leaves the job
\* succeeded with its credits debited once.
OutputsOf(j) == {k \in objects : k.kind = "output" /\ k.job = j}

C13_CrashAfterUpload ==
    [][ \A j \in JobIds :
          /\ (jobs[j].status = "processing" /\ OutputsOf(j) # {})
             => /\ OriginalKey(j) \in objects
                /\ jobs[j].lease_expires_at # Null
                /\ jobs[j].retry_count < jobs[j].max_retries
          /\ (OutputsOf(j)' # OutputsOf(j)) => OutputsOf(j)' = {OutputKey(j)}
          /\ \A w \in Workers :
               (FinishSuccess(w) /\ worker[w].job = j /\ holder[j] = w)
               => /\ worker[w].pc = "uploaded"
                  /\ OutputsOf(j) = {OutputKey(j)}
                  /\ jobs'[j].status = "succeeded"
                  /\ refunds'[j] = 0
                  /\ balance'[jobs[j].user_id]
                       = initBalance[jobs[j].user_id] - jobs[j].credits_used ]_vars

C13_Witness ==
    /\ jobs["j1"].status = "processing"
    /\ \A w \in Workers : worker[w].pc = "idle"
    /\ OutputKey("j1") \in objects
    /\ OriginalKey("j1") \in objects
    /\ Claimable(jobs["j1"])

\* ------------------------------------------------------------- progress
\* One job from POST /jobs, both polling workers running every job they claim
\* to its end, the RQ worker, which may die in the middle of a job, and the
\* clock.
InitLive == InitWith([jobs |-> {"j1"}, audit |-> FALSE, ticks |-> MaxTicks, storage |-> FALSE])

WorkerStepLive(w) ==
    \/ \E j \in JobIds : PollJobs(w, j)
    \/ ProcessJobClaim(w)
    \/ AddStartedEvent(w)
    \/ FinishSuccess(w)
    \/ AddCompletedEvent(w)
    \/ FinishFailureRead(w)
    \/ FinishFailureCommit(w)
    \/ AddFailedEvent(w)
    \/ CleanupStuckJobs(w)

RQStepLive ==
    \/ \E j \in JobIds : RQStart(j)
    \/ RQAddStartedEvent
    \/ RQFinishSuccess
    \/ RQAddCompletedEvent
    \/ RQFinishFailureRead
    \/ RQFinishFailureCommit
    \/ RQAddFailedEvent

NextLive ==
    \/ \E t \in Tiers : CreateJobRead("c1", t)
    \/ \E e \in BOOLEAN : CreateJobCommit("c1", e)
    \/ \E w \in Workers : WorkerStepLive(w)
    \/ RQStepLive
    \/ RQCrash
    \/ TickAfterPoll

\* Each worker's loop keeps polling, processing and sweeping, every provider
\* call returns, the RQ worker keeps taking jobs, the clock keeps running.
FairLive ==
    /\ \A w \in Workers : WF_vars(WorkerStepLive(w))
    /\ WF_vars(RQStepLive)
    /\ WF_vars(TickAfterPoll)

SpecLive == InitLive /\ [][NextLive]_vars /\ FairLive

\* C14: every created job eventually is succeeded or failed, also when the
\* worker or RQ processor that set it processing has died.
C14_EventuallyTerminal ==
    \A j \in JobIds : (jobs[j].status # "absent") ~> Terminal(j)

\* ------------------------------------------------------------- serial balance
\* C15: concurrent reservations, refunds and purchase grants of one user
\* leave the balance a serial order of them would leave: every commit of a
\* credit operation moves the committed balance by the operation's own amount
\* (no lost update, no stale read).
C15_SerialBalance ==
    [][\A u \in Users :
        /\ \A c \in Clients :
            (ClientUser(c) = u /\ \E e \in BOOLEAN : CreateJobCommit(c, e))
                => balance'[u] = balance[u] - client[c].cost
        /\ \A c \in Clients :
            (ClientUser(c) = u /\ RefundJobCommit(c))
                => balance'[u] = balance[u] + client[c].cost
        /\ \A c \in Clients :
            (ClientUser(c) = u /\ WebhookCommit(c))
                => balance'[u] = balance[u] + client[c].cost
        /\ \A w \in Workers :
            (FinishFailureCommit(w) /\ worker[w].refund /\ jobs[worker[w].job].user_id = u)
                => balance'[u] = balance[u] + jobs[worker[w].job].credits_used]_vars

\* ------------------------------------------------------------- atomic creation
\* Two clients of one user, each sending one POST /jobs that commits or is
\* aborted before its commit, and mobile enhance requests.
InitAbort == InitWith([jobs |-> JobIds, audit |-> FALSE, ticks |-> 0, storage |-> FALSE])

NextAbort ==
    \/ \E c \in Clients, t \in Tiers : client[c].code = 0 /\ CreateJobRead(c, t)
    \/ \E c \in Clients, e \in BOOLEAN : CreateJobCommit(c, e)
    \/ \E c \in Clients : CreateJobAbort(c)
    \/ \E c \in Clients, k \in 1..MaxCreditCost : MobileEnhance(c, k)

SpecAbort == InitAbort /\ [][NextAbort]_vars

Appears(j) == jobs[j].status = "absent" /\ jobs'[j].status # "absent"

\* C16: the debit, the queued job row and the created event of a job creation
\* are committed in one step or not at all; a creation that ends before its
\* commit leaves balance, jobs and events as they were.
C16_AtomicCreation ==
    [][/\ \A j \in JobIds :
            /\ Appears(j) =>
                 /\ jobs'[j].status = "queued"
                 /\ events'[j]["created"] = 1
                 /\ LET u == jobs'[j].user_id
                        cost == jobs'[j].credits_used
                    IN  balance'[u] \in {balance[u] - cost} \cup
                            {client[c].bal - cost : c \in {d \in Clients : client[d].pc = "cj_reserved"}}
            /\ events'[j]["created"] # events[j]["created"] => Appears(j)
       /\ \A u \in Users : balance'[u] < balance[u] => \E j \in JobIds : Appears(j)
       /\ \A c \in Clients :
            (client[c].pc = "cj_reserved" /\ client'[c].code = 500)
                => UNCHANGED <<hasCredit, balance, jobs, events, rqQueue>>]_vars

\* A request was aborted after its reservation and a job was created.
C16_Witness ==
    /\ \E c \in Clients : client[c].code = 500
    /\ \E j \in JobIds : jobs[j].status = "queued" /\ HasEvent(j, {"created"})

\* ------------------------------------------------------------- atomic failure
\* C17: a failed job has, from the commit that made it failed, its lease
\* cleared, its refund applied and its failed event recorded: the three are
\* committed together.
C17_AtomicFailure ==
    \A j \in JobIds :
        jobs[j].status = "failed" =>
            /\ jobs[j].lease_expires_at = Null
            /\ refunds[j] >= 1
            /\ HasEvent(j, {"failed"})

\* ------------------------------------------------------------- event order
StartedCount(evs) == evs["started"] + evs["started_retry"]

TerminalCount(evs) == evs["completed"] + evs["failed"]

\* C18: the events of a job are committed in the order created, started*,
\* then at most one of completed or failed: every event follows the created
\* event, and after a terminal event neither a started event nor a second
\* terminal event is recorded.
C18_EventOrder ==
    [][\A j \in JobIds :
        /\ events'[j]["created"] <= 1
        /\ events'[j] # events[j] => events'[j]["created"] = 1
        /\ StartedCount(events'[j]) # StartedCount(events[j]) => TerminalCount(events[j]) = 0
        /\ TerminalCount(events'[j]) # TerminalCount(events[j]) => TerminalCount(events[j]) = 0]_vars

\* ------------------------------------------------------------- POST /jobs, one request
\* C19: a POST /jobs of a user without a credit record, or whose balance is
\* below the cost of the tier (1 free, 2 premium), is answered 402 and
\* changes neither the balance nor the jobs nor the events.
C19_InsufficientCredits ==
    [][\A c \in Clients, t \in {"free", "premium"} :
        LET u == ClientUser(c)
            cost == IF t = "free" THEN 1 ELSE 2
        IN  (CreateJobRead(c, t) /\ (~hasCredit[u] \/ balance[u] < cost))
                => /\ client'[c].code = 402
                   /\ client'[c].pc = "idle"
                   /\ UNCHANGED <<hasCredit, balance, jobs, events, rqQueue, objects>>]_vars

\* A premium request was refused while the balance covers a free job, and
\* nothing was created.
C19_Witness ==
    /\ \E c \in Clients : client[c].code = 402
    /\ \A u \in Users : hasCredit[u] /\ balance[u] = 1 /\ initBalance[u] = 1
    /\ Created = {}

\* C20: a POST /jobs of a user whose balance b is at least the cost of the
\* tier (1 free, 2 premium, b = cost included) passes the credit check and
\* its commit creates exactly one job, queued, with credits_used = cost, and
\* leaves the balance b - cost.
C20_SufficientCredits ==
    [][\A c \in Clients :
        LET u == ClientUser(c) IN
        /\ \A t \in {"free", "premium"} :
            LET cost == IF t = "free" THEN 1 ELSE 2 IN
            (CreateJobRead(c, t) /\ hasCredit[u] /\ balance[u] >= cost)
                => /\ client'[c].pc = "cj_reserved"
                   /\ client'[c].cost = cost
                   /\ client'[c].bal = balance[u]
        /\ (\E e \in BOOLEAN : CreateJobCommit(c, e))
                => /\ \E j \in JobIds :
                        /\ Appears(j)
                        /\ \A k \in JobIds \ {j} : jobs'[k] = jobs[k]
                        /\ jobs'[j].status = "queued"
                        /\ jobs'[j].user_id = u
                        /\ jobs'[j].credits_used = client[c].cost
                   /\ balance'[u] = client[c].bal - client[c].cost
                   /\ client'[c].code = 200]_vars

\* A premium job was created from a balance of exactly 2.
C20_Witness ==
    \E j \in JobIds :
        /\ jobs[j].status = "queued"
        /\ jobs[j].credits_used = 2
        /\ initBalance[jobs[j].user_id] = 2
        /\ balance[jobs[j].user_id] = 0
        /\ \E c \in Clients : client[c].code = 200

\* ------------------------------------------------------------- refund round trip
\* C21: a job created at an affordable cost from balance b, then failed, then
\* refunded once through refund_job, leaves the balance at b again.
C21_RoundTrip ==
    \A j \in JobIds :
        (/\ jobs[j].status = "failed"
         /\ jobs[j].credits_used > 0
         /\ events[j]["credits_refunded"] = 1
         /\ \A c \in Clients : client[c].pc = "idle")
            => balance[jobs[j].user_id] = initBalance[jobs[j].user_id]

\* C22: a refund request for a job that is queued, processing or succeeded is
\* answered 400 "not in failed state" and leaves the balance and the job's
\* events unchanged.
C22_RefundNotFailed ==
    [][\A j \in JobIds :
        (/\ RefundJobRead("c1", j)
         /\ jobs[j].user_id = ClientUser("c1")
         /\ jobs[j].status \in {"queued", "processing", "succeeded"})
            => /\ client'["c1"].code = 400
               /\ client'["c1"].msg = "Job is not in failed state"
               /\ client'["c1"].pc = "idle"
               /\ UNCHANGED <<hasCredit, balance, jobs, events, refunds>>]_vars

\* The refund of a job in processing was refused.
C22_Witness ==
    /\ client["c1"].code = 400
    /\ client["c1"].msg = "Job is not in failed state"
    /\ \E j \in JobIds : jobs[j].status = "processing" /\ jobs[j].credits_used > 0

\* ------------------------------------------------------------- webhook endpoint
\* The users with a row in table users from signing in; a user named only by
\* the billing provider gets its users row in the transaction that creates its
\* credits row.
Registered == {"u1", "u2"}

WebhookUsers == {"u1", "u3"}

UserExists(u) == u \in Registered \/ hasCredit[u]

WebhookTypes == {"INITIAL_PURCHASE", "RENEWAL", "NON_RENEWING_PURCHASE",
                 "CANCELLATION", "EXPIRATION", "TRANSFER"}

\* A request body that is a JSON event, and one that json.loads rejects.
Bodies == [type : WebhookTypes, app_user_id : WebhookUsers, product_id : Products]

InvalidJson == [type |-> "", app_user_id |-> "", product_id |-> ""]

\* hmac.new(key, body, sha256).hexdigest(): two digests are equal exactly when
\* key and body are.
Hmac(key, body) == [key |-> key, body |-> body]

NoSignature == [key |-> "", body |-> InvalidJson]

NonAsciiSignature == [key |-> "non-ascii", body |-> InvalidJson]

WebhookKeys == {"k1", "k0"}

\* A body other than the one sent.
OtherBody(body) ==
    IF body = InvalidJson THEN CHOOSE b \in Bodies : TRUE
    ELSE [body EXCEPT !.app_user_id = IF @ = "u1" THEN "u3" ELSE "u1"]

\* The X-RevenueCat-Signature headers a request with this body may carry: none,
\* a value that is not ASCII, the digest of the body or of another body, under
\* the secret or another key.
Signatures(body) ==
    {NoSignature, NonAsciiSignature}
        \cup {Hmac(k, b) : k \in WebhookKeys, b \in {body, OtherBody(body)}}

\* verify_webhook_signature; scope.secret is REVENUECAT_WEBHOOK_SECRET, "" when
\* unset.  hmac.compare_digest raises TypeError on a str that is not ASCII,
\* which is what a header value with a byte above 0x7f decodes to.
verify_webhook_signature(signature, body) ==
    IF scope.secret = "" THEN "valid"
    ELSE IF signature = NoSignature THEN "invalid"
    ELSE IF signature = NonAsciiSignature THEN "TypeError"
    ELSE IF signature = Hmac(scope.secret, body) THEN "valid"
    ELSE "invalid"

\* The credits the handler of the event's type adds: handle_initial_purchase and
\* handle_non_renewing_purchase create the user and credit rows they miss,
\* handle_renewal returns when the user has no row, the other types add nothing.
CreditsGranted(body) ==
    IF body.type \in {"INITIAL_PURCHASE", "NON_RENEWING_PURCHASE"}
    THEN get_credits_for_product(body.product_id)
    ELSE IF body.type = "RENEWAL" /\ UserExists(body.app_user_id)
    THEN get_credits_for_product(body.product_id)
    ELSE 0

\* POST /api/webhooks/revenuecat, one request from the signature check to the
\* response.  A handler commits only when it adds credits; the rows it created
\* before are dropped with the session otherwise.
revenuecat_webhook(c, signature, body) ==
    /\ client[c].pc = "idle"
    /\ grants < MaxDeliveries
    /\ IF verify_webhook_signature(signature, body) = "TypeError"
       THEN /\ client' = [client EXCEPT ![c] = Respond(c, 500, "Internal Server Error")]
            /\ UNCHANGED <<hasCredit, balance, grants, delivered>>
       ELSE IF verify_webhook_signature(signature, body) = "invalid"
       THEN /\ client' = [client EXCEPT ![c] = Respond(c, 401, "Invalid signature")]
            /\ UNCHANGED <<hasCredit, balance, grants, delivered>>
       ELSE IF body = InvalidJson
       THEN /\ client' = [client EXCEPT ![c] = Respond(c, 400, "Invalid JSON")]
            /\ UNCHANGED <<hasCredit, balance, grants, delivered>>
       ELSE LET u == body.app_user_id
                credits_to_add == CreditsGranted(body) IN
            /\ IF credits_to_add > 0
               THEN /\ hasCredit' = [hasCredit EXCEPT ![u] = TRUE]
                    /\ balance' = [balance EXCEPT ![u] = @ + credits_to_add]
               ELSE UNCHANGED <<hasCredit, balance>>
            /\ grants' = grants + 1
            /\ delivered' = delivered \cup {body}
            /\ client' = [client EXCEPT ![c] = Respond(c, 200, "ok")]
    /\ UNCHANGED <<now, jobs, events, jlock, rqQueue, worker, rq, refunds, holder,
                   initBalance, scope, objects, assets,
                   shoots,
                   provider>>

\* The billing provider's deliveries, with and without a configured secret.
InitWebhook ==
    \E secret \in {"", "k1"} :
        InitAccounts(WebhookUsers, [jobs |-> {}, audit |-> FALSE, ticks |-> 0,
                                    storage |-> FALSE, secret |-> secret])

NextWebhook ==
    \E body \in Bodies \cup {InvalidJson} : \E signature \in Signatures(body) :
        revenuecat_webhook("c1", signature, body)

SpecWebhook == InitWebhook /\ [][NextWebhook]_vars

\* C23: a purchase event delivered again verbatim adds no credits: the final
\* balance is that of a single delivery.
C23_WebhookReplay ==
    [][\A body \in Bodies :
        (/\ scope.secret = "k1"
         /\ body \in delivered
         /\ revenuecat_webhook("c1", Hmac("k1", body), body))
            => balance' = balance]_vars

\* C24: with a webhook secret configured, a request whose signature header is
\* missing or is not the HMAC of the exact request body under the secret
\* (another value, another key, or computed over another body) is answered 401
\* and changes no user, credit or job state.
C24_SignatureRejected ==
    [][\A body \in Bodies \cup {InvalidJson} :
        \A signature \in Signatures(body) \ {Hmac(scope.secret, body)} :
            (scope.secret # "" /\ revenuecat_webhook("c1", signature, body))
                => /\ client'["c1"].code = 401
                   /\ UNCHANGED <<hasCredit, balance, jobs, events, grants, delivered>>]_vars

PurchaseTypes == {"INITIAL_PURCHASE", "RENEWAL", "NON_RENEWING_PURCHASE"}

\* C25: an accepted event of type initial purchase, renewal or non-renewing
\* purchase for a product of the product table adds exactly the product's
\* credits to the named user's balance; an accepted event of any other type is
\* answered 200 and changes no balance.
C25_WebhookCredits ==
    [][\A body \in Bodies :
        (scope.secret # "" /\ revenuecat_webhook("c1", Hmac(scope.secret, body), body))
            => /\ client'["c1"].code = 200
               /\ IF body.type \in PurchaseTypes
                     /\ body.product_id = "com.lusterai.credits.small"
                  THEN balance' = [balance EXCEPT ![body.app_user_id] = @ + 5]
                  ELSE balance' = balance]_vars

\* ------------------------------------------------------------- reads by id
\* A response that carries the data, or the output location, of job j.
RespondJob(c, code, msg, j) == [IdleClient EXCEPT !.code = code, !.msg = msg, !.job = j]

\* GET /jobs/{job_id}: the row is looked up by id and owner.
get_job(c, j) ==
    /\ client[c].pc = "idle"
    /\ IF jobs[j].status = "absent" \/ jobs[j].user_id # ClientUser(c)
       THEN client' = [client EXCEPT ![c] = Respond(c, 404, "Job not found")]
       ELSE client' = [client EXCEPT ![c] = RespondJob(c, 200, jobs[j].status, j)]
    /\ UNCHANGED <<now, hasCredit, balance, jobs, events, jlock, rqQueue, worker, rq,
                   grants, refunds, holder, initBalance, scope, objects, assets,
                   delivered,
                   shoots,
                   provider>>

\* GET /api/mobile/enhance/{job_id}/status: the same lookup.
mobile_job_status(c, j) ==
    /\ client[c].pc = "idle"
    /\ IF jobs[j].status = "absent" \/ jobs[j].user_id # ClientUser(c)
       THEN client' = [client EXCEPT ![c] = Respond(c, 404, "Job not found or access denied")]
       ELSE client' = [client EXCEPT ![c] = RespondJob(c, 200, jobs[j].status, j)]
    /\ UNCHANGED <<now, hasCredit, balance, jobs, events, jlock, rqQueue, worker, rq,
                   grants, refunds, holder, initBalance, scope, objects, assets,
                   delivered,
                   shoots,
                   provider>>

\* GET /outputs/{job_id}.jpg: the handler has no user dependency and looks the
\* row up by id alone; with an output_path it redirects to a presigned URL of
\* the output (or sends the local file).
serve_output(c, j) ==
    /\ client[c].pc = "idle"
    /\ IF jobs[j].status = "absent"
       THEN client' = [client EXCEPT ![c] = Respond(c, 404, "Job not found")]
       ELSE IF ~jobs[j].output_path
       THEN client' = [client EXCEPT ![c] = Respond(c, 404, "Output file not found")]
       ELSE client' = [client EXCEPT ![c] = RespondJob(c, 302, "output", j)]
    /\ UNCHANGED <<now, hasCredit, balance, jobs, events, jlock, rqQueue, worker, rq,
                   grants, refunds, holder, initBalance, scope, objects, assets,
                   delivered,
                   shoots,
                   provider>>

\* Two users, each creating jobs and asking for jobs by id, and one worker.
TenantUsers == {"u1", "u2"}

InitTenant ==
    InitAccounts(TenantUsers, [jobs |-> JobIds, audit |-> FALSE, ticks |-> 0, storage |-> FALSE])

NextTenant ==
    \/ \E c \in Clients, k \in 1..MaxCreditCost : MobileEnhance(c, k)
    \/ \E c \in Clients, j \in JobIds : get_job(c, j)
    \/ \E c \in Clients, j \in JobIds : mobile_job_status(c, j)
    \/ \E c \in Clients, j \in JobIds : serve_output(c, j)
    \/ \E c \in Clients, j \in JobIds : RefundJobRead(c, j)
    \/ \E c \in Clients : RefundJobCommit(c)
    \/ \E j \in JobIds : PollJobs("w1", j)
    \/ ProcessJobClaim("w1")
    \/ AddStartedEvent("w1")
    \/ FinishSuccess("w1")
    \/ AddCompletedEvent("w1")
    \/ FinishFailureRead("w1")
    \/ FinishFailureCommit("w1")
    \/ AddFailedEvent("w1")

SpecTenant == InitTenant /\ [][NextTenant]_vars

\* C26: a request of user U that names a job of another user V (get job, job
\* status, refund, serve output) is answered "not found", carries nothing of
\* the job and changes no state of V.
C26_OwnershipScoping ==
    [][\A c \in Clients, j \in JobIds :
        (/\ jobs[j].status # "absent"
         /\ jobs[j].user_id # ClientUser(c)
         /\ \/ get_job(c, j)
            \/ mobile_job_status(c, j)
            \/ RefundJobRead(c, j)
            \/ serve_output(c, j))
            => /\ client'[c].code = 404
               /\ client'[c].job = NoJob
               /\ UNCHANGED <<hasCredit, balance, jobs, events>>]_vars

\* ------------------------------------------------------------- uploads
\* The key POST /uploads/presign hands out for an asset id,
\* {user.id}/{shoot_id}/{asset_id}/original{ext}, is defined below JobOf.
\* Ids are opaque: the job created on asset a1 is called j1, the one on a2 is
\* called j2 (one job for an asset), so that the key of an asset's original is
\* the key the worker fetches for its job.
JobOf(a) == IF a = "a1" THEN "j1" ELSE "j2"

UploadKey(a) == OriginalKey(JobOf(a))

\* A file POST /uploads wrote under UPLOADS_DIR (an absolute path).
LocalKey(a) == [kind |-> "local", job |-> JobOf(a), attempt |-> 0]

\* POST /shoots.
create_shoot(c, s) ==
    /\ client[c].pc = "idle"
    /\ shoots[s] = NoOne
    /\ shoots' = [shoots EXCEPT ![s] = ClientUser(c)]
    /\ client' = [client EXCEPT ![c] = Respond(c, 200, "shoot")]
    /\ UNCHANGED <<now, hasCredit, balance, jobs, events, jlock, rqQueue, worker, rq,
                   grants, refunds, holder, initBalance, scope, objects, assets,
                   delivered,
                   provider>>

\* The client posts the file to the store with the presigned form.
PresignedPost(a) ==
    /\ UploadKey(a) \notin objects
    /\ objects' = objects \cup {UploadKey(a)}
    /\ UNCHANGED <<now, hasCredit, balance, jobs, events, jlock, rqQueue, client, worker,
                   rq, grants, refunds, holder, initBalance, scope, assets, delivered,
                   shoots,
                   provider>>

\* check_file_exists: head_object answers; a 404 is "absent"; any other
\* ClientError is raised.
HeadAnswers(key) == {IF key \in objects THEN "found" ELSE "absent", "error"}

AssetRow(c, s, key) == [shoot_id |-> s, user_id |-> ClientUser(c), file_path |-> key]

\* db.add(Asset(id=request.asset_id, ...)); db.commit(): the primary key
\* refuses a second row of the same id.
InsertAsset(c, a, s, key, msg) ==
    IF assets[a] # NoAsset
    THEN /\ client' = [client EXCEPT ![c] = Respond(c, 500, "IntegrityError")]
         /\ UNCHANGED assets
    ELSE /\ assets' = [assets EXCEPT ![a] = AssetRow(c, s, key)]
         /\ client' = [client EXCEPT ![c] = Respond(c, 200, msg)]

\* POST /uploads/confirm: the HTTPException(400) of an absent file is raised
\* inside the try whose "except Exception" answers 500.
confirm_upload(c, a, s, head) ==
    /\ client[c].pc = "idle"
    /\ head \in HeadAnswers(UploadKey(a))
    /\ IF ~scope.storage
       THEN /\ client' = [client EXCEPT ![c] = Respond(c, 503, "R2 storage not configured")]
            /\ UNCHANGED assets
       ELSE IF shoots[s] # ClientUser(c)
       THEN /\ client' = [client EXCEPT ![c] = Respond(c, 404, "Shoot not found")]
            /\ UNCHANGED assets
       ELSE IF head # "found"
       THEN /\ client' = [client EXCEPT ![c] = Respond(c, 500, "Failed to verify upload")]
            /\ UNCHANGED assets
       ELSE InsertAsset(c, a, s, UploadKey(a), "confirmed")
    /\ UNCHANGED <<now, hasCredit, balance, jobs, events, jlock, rqQueue, worker, rq,
                   grants, refunds, holder, initBalance, scope, objects, delivered,
                   shoots,
                   provider>>

\* POST /api/mobile/uploads/confirm: the HTTPException(400) of an absent file
\* is raised inside the try whose "except Exception" only logs a warning, and
\* the handler goes on to insert the row.
mobile_confirm_upload(c, a, s, head) ==
    /\ client[c].pc = "idle"
    /\ head \in HeadAnswers(UploadKey(a))
    /\ IF shoots[s] # ClientUser(c)
       THEN /\ client' = [client EXCEPT ![c] = Respond(c, 404, "Shoot not found")]
            /\ UNCHANGED assets
       ELSE InsertAsset(c, a, s, UploadKey(a), "confirmed")
    /\ UNCHANGED <<now, hasCredit, balance, jobs, events, jlock, rqQueue, worker, rq,
                   grants, refunds, holder, initBalance, scope, objects, delivered,
                   shoots,
                   provider>>

HeadResults == {"found", "absent", "error"}

InitConfirm ==
    InitWith([jobs |-> {}, audit |-> FALSE, ticks |-> 0, storage |-> TRUE])

NextConfirm ==
    \/ \E c \in Clients, s \in ShootIds : create_shoot(c, s)
    \/ \E a \in AssetIds : PresignedPost(a)
    \/ \E c \in Clients, a \in AssetIds, s \in ShootIds, head \in HeadResults :
          confirm_upload(c, a, s, head)
    \/ \E c \in Clients, a \in AssetIds, s \in ShootIds, head \in HeadResults :
          mobile_confirm_upload(c, a, s, head)

SpecConfirm == InitConfirm /\ [][NextConfirm]_vars

\* C27: a confirm-upload (POST /uploads/confirm or the mobile confirm) whose
\* object key the store reports absent creates no asset row.
C27_ConfirmAbsent ==
    [][\A c \in Clients, a \in AssetIds, s \in ShootIds :
        (confirm_upload(c, a, s, "absent") \/ mobile_confirm_upload(c, a, s, "absent"))
            => assets' = assets]_vars

\* ------------------------------------------------------------- shoot deletion
\* POST /uploads: the file is written to the local uploads directory, whether
\* R2 is enabled or not, and the asset row holds its absolute path.
upload_file(c, a, s) ==
    /\ client[c].pc = "idle"
    /\ assets[a] = NoAsset
    /\ IF shoots[s] # ClientUser(c)
       THEN /\ client' = [client EXCEPT ![c] = Respond(c, 404, "Shoot not found")]
            /\ UNCHANGED <<assets, objects>>
       ELSE /\ objects' = objects \cup {LocalKey(a)}
            /\ assets' = [assets EXCEPT ![a] = AssetRow(c, s, LocalKey(a))]
            /\ client' = [client EXCEPT ![c] = Respond(c, 200, "uploaded")]
    /\ UNCHANGED <<now, hasCredit, balance, jobs, events, jlock, rqQueue, worker, rq,
                   grants, refunds, holder, initBalance, scope, delivered, shoots,
                   provider>>

\* POST /jobs on an asset, taken as one step; the advisory enqueue is left
\* out (no RQ worker runs where this action is used).
create_job_on_asset(c, a, tier) ==
    /\ client[c].pc = "idle"
    /\ jobs[JobOf(a)].status = "absent"
    /\ LET u == ClientUser(c)
           cost == TierCost(tier) IN
       IF assets[a] = NoAsset \/ assets[a].user_id # u
       THEN /\ client' = [client EXCEPT ![c] = Respond(c, 404, "Asset not found")]
            /\ UNCHANGED <<balance, jobs, events>>
       ELSE IF ~hasCredit[u] \/ balance[u] < 1 \/ balance[u] < cost
       THEN /\ client' = [client EXCEPT ![c] = Respond(c, 402, "Insufficient credits")]
            /\ UNCHANGED <<balance, jobs, events>>
       ELSE /\ balance' = [balance EXCEPT ![u] = balance[u] - cost]
            /\ jobs' = [jobs EXCEPT ![JobOf(a)] = NewJob(u, cost)]
            /\ events' = [events EXCEPT ![JobOf(a)] = AddEvent(NoEvents, "created")]
            /\ client' = [client EXCEPT ![c] = Respond(c, 200, "queued")]
    /\ UNCHANGED <<now, hasCredit, jlock, rqQueue, worker, rq, grants, refunds, holder,
                   initBalance, scope, objects, assets, delivered, shoots,
                   provider>>

AssetsOf(s) == {a \in AssetIds : assets[a] # NoAsset /\ assets[a].shoot_id = s}

JobsOf(s) == {JobOf(a) : a \in {b \in AssetsOf(s) : jobs[JobOf(b)].status # "absent"}}

\* The keys delete_project hands to r2_client.delete_file: the file_path of
\* each asset and the output_path of each job, where R2 is enabled and the
\* path does not start with "/".
DeleteTargets(s) ==
    IF scope.storage
    THEN {assets[a].file_path : a \in {b \in AssetsOf(s) : assets[b].file_path.kind # "local"}}
         \cup {OutputKey(j) : j \in {i \in JobsOf(s) : jobs[i].output_path}}
    ELSE {}

\* DELETE /api/mobile/projects/{shoot_id}; failed: the keys whose delete_file
\* raised, which is logged.
delete_project(c, s, failed) ==
    /\ client[c].pc = "idle"
    /\ IF shoots[s] # ClientUser(c)
       THEN /\ failed = {}
            /\ client' = [client EXCEPT ![c] = Respond(c, 404, "Project not found")]
            /\ UNCHANGED <<jobs, events, refunds, holder, objects, assets, shoots>>
       ELSE /\ failed \subseteq DeleteTargets(s)
            /\ objects' = objects \ (DeleteTargets(s) \ failed)
            /\ events' = [j \in JobIds |-> IF j \in JobsOf(s) THEN NoEvents ELSE events[j]]
            /\ jobs' = [j \in JobIds |-> IF j \in JobsOf(s) THEN AbsentJob ELSE jobs[j]]
            /\ refunds' = [j \in JobIds |-> IF j \in JobsOf(s) THEN 0 ELSE refunds[j]]
            /\ holder' = [j \in JobIds |-> IF j \in JobsOf(s) THEN NoOne ELSE holder[j]]
            /\ assets' = [a \in AssetIds |-> IF a \in AssetsOf(s) THEN NoAsset ELSE assets[a]]
            /\ shoots' = [shoots EXCEPT ![s] = NoOne]
            /\ client' = [client EXCEPT ![c] = Respond(c, 200, "deleted")]
    /\ UNCHANGED <<now, hasCredit, balance, jlock, rqQueue, worker, rq, grants,
                   initBalance, scope, delivered,
                   provider>>

\* One shoot with local and presigned uploads, free-tier jobs on its assets,
\* one polling worker, and deletions of the shoot while no worker holds a job
\* of it; jobs are created while the balance is within its initial range.
WorkerOn(s) == \E w \in Workers : worker[w].job \in JobsOf(s)

InitLibrary ==
    InitWith([jobs |-> JobIds, audit |-> FALSE, ticks |-> 0, storage |-> TRUE])

NextLibrary ==
    \/ create_shoot("c1", "s1")
    \/ \E a \in AssetIds : upload_file("c1", a, "s1")
    \/ \E a \in AssetIds : PresignedPost(a)
    \/ \E a \in AssetIds : confirm_upload("c1", a, "s1", "found")
    \/ \E a \in AssetIds :
          balance[ClientUser("c1")] <= MaxInitBalance /\ create_job_on_asset("c1", a, "free")
    \/ \E j \in JobIds : PollJobs("w1", j)
    \/ ProcessJobClaim("w1")
    \/ AddStartedEvent("w1")
    \/ UploadOutput("w1")
    \/ FinishSuccess("w1")
    \/ AddCompletedEvent("w1")
    \/ FinishFailureRead("w1")
    \/ FinishFailureCommit("w1")
    \/ AddFailedEvent("w1")
    \/ \E failed \in SUBSET DeleteTargets("s1") :
          ~WorkerOn("s1") /\ delete_project("c1", "s1", failed)

SpecLibrary == InitLibrary /\ [][NextLibrary]_vars

\* C28: after the owner deletes a shoot, no asset, job or job-event row of
\* the shoot remains, and every original and output object those rows
\* referenced is gone from the store, but for the objects whose deletion
\* failed (which is logged and does not keep the rows).
Referenced(s) ==
    {assets[a].file_path : a \in AssetsOf(s)}
        \cup {OutputKey(j) : j \in {i \in JobsOf(s) : jobs[i].output_path}}

C28_DeleteCascade ==
    [][\A s \in {"s1"} : \A failed \in SUBSET DeleteTargets(s) :
        (shoots[s] = ClientUser("c1") /\ delete_project("c1", s, failed))
            => /\ shoots'[s] = NoOne
               /\ \A a \in AssetsOf(s) : assets'[a] = NoAsset
               /\ \A j \in JobsOf(s) : jobs'[j] = AbsentJob /\ events'[j] = NoEvents
               /\ \A key \in Referenced(s) \ failed : key \notin objects']_vars

C30_TierValidated ==
    [][\A c \in Clients, t \in Tiers \ {"free", "premium"} :
        CreateJobRead(c, t)
            => /\ client'[c].pc = "idle"
               /\ client'[c].code >= 400
               /\ UNCHANGED <<hasCredit, balance, jobs, events>>]_vars

\* ------------------------------------------------------------- the sweep, step by step
\* cleanup_stuck_jobs where another sweep runs beside it.  The query that
\* selects the stuck jobs takes no lock.
SweepSelect(w, j) ==
    /\ worker[w].pc = "idle"
    /\ Stuck(jobs[j])
    /\ worker' = [worker EXCEPT ![w] = [IdleWorker EXCEPT !.pc = "sweep_selected", !.job = j]]
    /\ UNCHANGED <<now, hasCredit, balance, jobs, events, jlock, rqQueue, client, rq,
                   grants, refunds, holder, initBalance, scope, objects, assets, delivered,
                   shoots,
                   provider>>

\* The marker query (credits_refunded, max_retries_exceeded) and the credit
\* query; the session does not autoflush, so nothing is written yet.
SweepRefundRead(w) ==
    /\ worker[w].pc = "sweep_selected"
    /\ LET j == worker[w].job
           u == jobs[j].user_id IN
       worker' = [worker EXCEPT ![w].pc = "sweep_read",
                                ![w].bal = balance[u],
                                ![w].refund = /\ ~HasEvent(j, {"credits_refunded", "max_retries_exceeded"})
                                              /\ hasCredit[u]
                                              /\ jobs[j].credits_used # 0]
    /\ UNCHANGED <<now, hasCredit, balance, jobs, events, jlock, rqQueue, client, rq,
                   grants, refunds, holder, initBalance, scope, objects, assets, delivered,
                   shoots,
                   provider>>

\* add_job_event("cleanup_max_retries"): its commit writes the job row
\* (failed, lease cleared), the balance the session computed and the event.
SweepCommit(w) ==
    /\ worker[w].pc = "sweep_read"
    /\ LET j == worker[w].job
           u == jobs[j].user_id IN
       /\ jlock[j] = NoOne
       /\ jobs' = [jobs EXCEPT ![j].status = "failed",
                               ![j].error_message = "max retries exceeded, cleaned up",
                               ![j].lease_expires_at = Null]
       /\ balance' = IF worker[w].refund
                     THEN [balance EXCEPT ![u] = worker[w].bal + jobs[j].credits_used]
                     ELSE balance
       /\ refunds' = IF worker[w].refund THEN [refunds EXCEPT ![j] = @ + 1] ELSE refunds
       /\ events' = [events EXCEPT ![j] = AddEvent(@, "cleanup_max_retries")]
       /\ worker' = [worker EXCEPT ![w] = IdleWorker]
    /\ UNCHANGED <<now, hasCredit, jlock, rqQueue, client, rq, grants, holder,
                   initBalance, scope, objects, assets, delivered, shoots,
                   provider>>

\* A jobs table that holds one row matching the sweep's filter (processing,
\* lease expired, retry_count at max_retries), debited at its creation, and
\* the two workers' loops running the sweep.
StuckJob(cost) ==
    [NewJob("u1", cost) EXCEPT !.status = "processing", !.started_at = 0,
                               !.lease_expires_at = LEASE_DURATION_MINUTES,
                               !.retry_count = MAX_RETRIES]

InitSweep ==
    /\ scope = [jobs |-> {}, audit |-> TRUE, ticks |-> 0, storage |-> FALSE]
    /\ now = 2 * TickMinutes
    /\ hasCredit = [u \in Users |-> TRUE]
    /\ balance \in [Users -> 0..MaxInitBalance]
    /\ initBalance = balance
    /\ \E cost \in {FreeCost, PremiumCost} :
          jobs = [j \in JobIds |-> IF j = "j1" THEN StuckJob(cost) ELSE AbsentJob]
    /\ events = [j \in JobIds |->
                   IF j = "j1" THEN [NoEvents EXCEPT !["created"] = 1, !["started"] = 1]
                   ELSE NoEvents]
    /\ jlock = [j \in JobIds |-> NoOne]
    /\ rqQueue = {}
    /\ client = [c \in Clients |-> IdleClient]
    /\ worker = [w \in Workers |-> IdleWorker]
    /\ rq = IdleWorker
    /\ grants = 0
    /\ refunds = [j \in JobIds |-> 0]
    /\ holder = [j \in JobIds |-> NoOne]
    /\ objects = {}
    /\ assets = [a \in AssetIds |-> NoAsset]
    /\ delivered = {}
    /\ shoots = [s \in ShootIds |-> NoOne]
    /\ provider = NoProvider

NextSweep ==
    \/ \E w \in Workers, j \in JobIds : SweepSelect(w, j)
    \/ \E w \in Workers : SweepRefundRead(w)
    \/ \E w \in Workers : SweepCommit(w)

SpecSweep == InitSweep /\ [][NextSweep]_vars

AfterSuccess_propagated(w, event_written, original_deleted) ==
    /\ worker[w].pc = "done_ok"
    /\ LET j == worker[w].job
           u == jobs[j].user_id IN
       /\ events' = [events EXCEPT ![j] = IF event_written THEN AddEvent(@, "completed") ELSE @]
       /\ objects' = IF original_deleted THEN objects \ {OriginalKey(j)} ELSE objects
       /\ jobs' = IF event_written /\ original_deleted THEN jobs
                  ELSE [jobs EXCEPT ![j].status = "failed",
                                    ![j].error_message = "processing failed"]
       /\ balance' = IF event_written /\ original_deleted THEN balance
                     ELSE [balance EXCEPT ![u] = @ + jobs[j].credits_used]
       /\ worker' = [worker EXCEPT ![w] = IdleWorker]
    /\ UNCHANGED <<now, hasCredit, jlock, rqQueue, client, rq, grants,
                   refunds, holder, initBalance, scope, assets, delivered, shoots,
                   provider>>

AfterSuccess(w, event_written, original_deleted) ==
    /\ worker[w].pc = "done_ok"
    /\ LET j == worker[w].job IN
       /\ events' = [events EXCEPT ![j] = IF event_written THEN AddEvent(@, "completed") ELSE @]
       /\ objects' = IF original_deleted THEN objects \ {OriginalKey(j)} ELSE objects
       /\ worker' = [worker EXCEPT ![w] = IdleWorker]
    /\ UNCHANGED <<now, hasCredit, balance, jobs, jlock, rqQueue, client, rq, grants,
                   refunds, holder, initBalance, scope, assets, delivered, shoots,
                   provider>>

\* The same after the commit of a failure: add_job_event("failed"), the
\* deletion of the original, the scratch files.
AfterFailure(w, event_written, original_deleted) ==
    /\ worker[w].pc = "done_fail"
    /\ LET j == worker[w].job IN
       /\ events' = [events EXCEPT ![j] = IF event_written THEN AddEvent(@, "failed") ELSE @]
       /\ objects' = IF original_deleted THEN objects \ {OriginalKey(j)} ELSE objects
       /\ worker' = [worker EXCEPT ![w] = IdleWorker]
    /\ UNCHANGED <<now, hasCredit, balance, jobs, jlock, rqQueue, client, rq, grants,
                   refunds, holder, initBalance, scope, assets, delivered, shoots,
                   provider>>

\* Jobs from the mobile endpoints with their originals in storage, both
\* polling workers, attempts that succeed or fail, and steps after the commit
\* that fail.
InitAfter == InitWith([jobs |-> JobIds, audit |-> TRUE, ticks |-> 0, storage |-> TRUE])

NextAfter ==
    \/ \E k \in 1..MaxCreditCost : MobileEnhance("c1", k)
    \/ \E w \in Workers, j \in JobIds : PollJobs(w, j)
    \/ \E w \in Workers : ProcessJobClaim(w)
    \/ \E w \in Workers : AddStartedEvent(w)
    \/ \E w \in Workers : UploadOutput(w)
    \/ \E w \in Workers : FinishSuccess(w)
    \/ \E w \in Workers : FinishFailureRead(w)
    \/ \E w \in Workers : FinishFailureCommit(w)
    \/ \E w \in Workers, e, d \in BOOLEAN : AfterSuccess(w, e, d)
    \/ \E w \in Workers, e, d \in BOOLEAN : AfterFailure(w, e, d)

SpecAfter == InitAfter /\ [][NextAfter]_vars

\* C32: the steps after a worker's commit of succeeded (the completed event,
\* the deletion of the original, the scratch files), whichever of them fail,
\* leave the job rows and the credit rows as they are, and so do the steps
\* after a committed failure; a job that is succeeded stays succeeded and a
\* failed one stays failed.
C32_CleanupFailures ==
    [][/\ \A w \in Workers, e, d \in BOOLEAN :
            (AfterSuccess(w, e, d) \/ AfterFailure(w, e, d))
                => UNCHANGED <<jobs, hasCredit, balance, refunds>>
       /\ \A j \in JobIds :
            jobs[j].status \in {"succeeded", "failed"} => jobs'[j].status = jobs[j].status]_vars

C32_Witness ==
    \E j \in JobIds :
        /\ jobs[j].status = "succeeded"
        /\ events[j]["completed"] = 0
        /\ OriginalKey(j) \in objects
        /\ \A w \in Workers : worker[w].job # j
        /\ balance[jobs[j].user_id] < initBalance[jobs[j].user_id]

\* ------------------------------------------------------------- advisory enqueue
\* POST /jobs whose enqueue succeeds or fails, no RQ worker running, and the
\* two polling workers, whose loops keep polling and processing.
InitAdvisory == InitWith([jobs |-> JobIds, audit |-> FALSE, ticks |-> 0, storage |-> FALSE])

WorkerStepAdvisory(w) ==
    \/ \E j \in JobIds : PollJobs(w, j)
    \/ ProcessJobClaim(w)
    \/ AddStartedEvent(w)
    \/ FinishSuccess(w)
    \/ AddCompletedEvent(w)
    \/ FinishFailureRead(w)
    \/ FinishFailureCommit(w)
    \/ AddFailedEvent(w)

NextAdvisory ==
    \/ \E t \in {"free", "premium"} : CreateJobRead("c1", t)
    \/ \E e \in BOOLEAN : CreateJobCommit("c1", e)
    \/ \E w \in Workers : WorkerStepAdvisory(w)

FairAdvisory == \A w \in Workers : WF_vars(WorkerStepAdvisory(w))

SpecAdvisory == InitAdvisory /\ [][NextAdvisory]_vars /\ FairAdvisory

\* C33: when the enqueue after the commit of create_job fails, the request
\* is answered 200, the job is committed queued with its credits reserved,
\* and a job that is queued and not in the dispatcher's queue is claimed by
\* a polling worker and brought to succeeded or failed.
C33_AdvisoryEnqueue ==
    /\ [][CreateJobCommit("c1", FALSE)
            => /\ client'["c1"].code = 200
               /\ rqQueue' = rqQueue
               /\ \E j \in JobIds :
                    /\ Appears(j)
                    /\ jobs'[j].status = "queued"
                    /\ jobs'[j].credits_used = client["c1"].cost
                    /\ balance'[jobs'[j].user_id] = client["c1"].bal - client["c1"].cost]_vars
    /\ \A j \in JobIds : (jobs[j].status = "queued" /\ j \notin rqQueue) ~> Terminal(j)

C33_Witness ==
    \E j \in JobIds :
        /\ jobs[j].status = "succeeded"
        /\ j \notin rqQueue
        /\ holder[j] \in Workers
        /\ client["c1"].code = 200
        /\ balance[jobs[j].user_id] < initBalance[jobs[j].user_id]

\* ------------------------------------------------------------- provider calls
\* What one call of client.images.edit ends in: an image, an error that a
\* later call may not meet again (rate limit, timeout, 5xx), or an error that
\* every call meets (rejected request, invalid image, empty response).
ProviderOutcomes == {"image", "transient", "permanent"}

\* The loop of enhance_image as it stands for worker w's job: a new one when
\* the worker has started on another job.
LoopOf(w) ==
    IF provider.job = worker[w].job THEN provider
    ELSE [NoProvider EXCEPT !.job = worker[w].job]

\* One pass of "for attempt in range(max_retries)": the provider is called;
\* an image is returned at once; any exception is caught, raised again on the
\* last pass (enhance_image then returns success False) and otherwise
\* followed by a sleep and the next pass.
ProviderCall(w, outcome) ==
    /\ worker[w].pc = "processing"
    /\ LoopOf(w).result = "none"
    /\ LoopOf(w).attempt < ProviderMaxRetries
    /\ provider' = [LoopOf(w) EXCEPT
                      !.calls = @ + 1,
                      !.last = outcome,
                      !.attempt = IF outcome = "image" THEN @ ELSE @ + 1,
                      !.result = IF outcome = "image" THEN "success"
                                 ELSE IF LoopOf(w).attempt = ProviderMaxRetries - 1
                                 THEN "failure" ELSE "none"]
    /\ UNCHANGED <<now, hasCredit, balance, jobs, events, jlock, rqQueue, client, worker,
                   rq, grants, refunds, holder, initBalance, scope, objects, assets,
                   delivered, shoots>>

Returned(w, result) == provider.job = worker[w].job /\ provider.result = result

\* Jobs from the mobile endpoints, one polling worker, and the provider calls
\* of each processing attempt.
InitProvider == InitWith([jobs |-> JobIds, audit |-> FALSE, ticks |-> 0, storage |-> FALSE])

NextProvider ==
    \/ \E k \in 1..MaxCreditCost : MobileEnhance("c1", k)
    \/ \E j \in JobIds : PollJobs("w1", j)
    \/ ProcessJobClaim("w1")
    \/ AddStartedEvent("w1")
    \/ \E outcome \in ProviderOutcomes : ProviderCall("w1", outcome)
    \/ Returned("w1", "success") /\ FinishSuccess("w1")
    \/ AddCompletedEvent("w1")
    \/ Returned("w1", "failure") /\ FinishFailureRead("w1")
    \/ FinishFailureCommit("w1")
    \/ AddFailedEvent("w1")

SpecProvider == InitProvider /\ [][NextProvider]_vars

\* C34: within one processing attempt the provider is called again only
\* after a transient error and at most three times, and an attempt whose
\* call met a non-retryable error has ended with that call.
C34_ProviderRetries ==
    /\ [](provider.calls <= ProviderMaxRetries)
    /\ [](provider.last = "permanent" => provider.result = "failure")
    /\ [][\A outcome \in ProviderOutcomes :
            (ProviderCall("w1", outcome) /\ LoopOf("w1").calls > 0)
                => LoopOf("w1").last = "transient"]_vars

\* ------------------------------------------------------------- absent upload
\* C35: a POST /uploads/confirm for the caller's own shoot whose object the
\* store reports absent is answered 400, not an internal error.
C35_AbsentIs400 ==
    [][\A c \in Clients, a \in AssetIds, s \in ShootIds :
        (confirm_upload(c, a, s, "absent") /\ shoots[s] = ClientUser(c))
            => client'[c].code = 400]_vars

\* ------------------------------------------------------------- started_at
\* C36: started_at is set by the first claim only: a reclaim (a claim of a
\* job already processing) updates status, lease_expires_at and retry_count
\* and leaves started_at as the first claim set it.
C36_StartedAtOnce ==
    [][\A w \in Workers :
        (ProcessJobClaim(w) /\ jobs[worker[w].job].status = "processing")
            => /\ jobs'[worker[w].job].started_at = jobs[worker[w].job].started_at
               /\ jobs'[worker[w].job].lease_expires_at = now + LEASE_DURATION_MINUTES
               /\ jobs'[worker[w].job].retry_count = jobs[worker[w].job].retry_count + 1]_vars

\* ------------------------------------------------------------- positive cost
\* C37: every job-creation endpoint, the mobile enhance with its cost taken
\* from the request included, reserves a strictly positive amount: every
\* created job has credits_used >= 1, and the step that creates a job lowers
\* the balance of its user.
C37_PositiveReservation ==
    /\ [](\A j \in Created : jobs[j].credits_used >= 1)
    /\ [][\A j \in JobIds :
            (jobs[j].status = "absent" /\ jobs'[j].status # "absent")
                => balance'[jobs'[j].user_id] < balance[jobs'[j].user_id]]_vars

\* ------------------------------------------------------------- polling only
\* One job from the mobile endpoints and the two polling workers with all
\* that their loops do: claims, reclaims, the max-retries branch, attempts
\* that succeed, fail or crash, the sweep; no RQ worker.
InitPolling == InitWith([jobs |-> {"j1"}, audit |-> TRUE, ticks |-> MaxTicks, storage |-> FALSE])

WorkerStepPolling(w) ==
    \/ \E j \in JobIds : PollJobs(w, j)
    \/ ExhaustedRead(w)
    \/ ExhaustedCommit(w)
    \/ AddMaxRetriesEvent(w)
    \/ ProcessJobClaim(w)
    \/ AddStartedEvent(w)
    \/ FinishSuccess(w)
    \/ AddCompletedEvent(w)
    \/ FinishFailureRead(w)
    \/ FinishFailureCommit(w)
    \/ AddFailedEvent(w)
    \/ CleanupStuckJobs(w)
    \/ CrashWhileProcessing(w)

NextPolling ==
    \/ \E k \in 1..MaxCreditCost : MobileEnhance("c1", k)
    \/ \E w \in Workers : WorkerStepPolling(w)
    \/ Tick

SpecPolling == InitPolling /\ [][NextPolling]_vars

\* C38: in every committed state reached through the polling workers a
\* processing job has a lease and retry_count < max_retries, so no job meets
\* the selection of cleanup_stuck_jobs and the sweep writes nothing; the step
\* that brings retry_count to max_retries is the max-retries branch of the
\* claim, which commits the job failed.
C38_SweepNeverSelects ==
    /\ [](\A j \in JobIds :
            /\ jobs[j].status = "processing"
               => /\ jobs[j].lease_expires_at # Null
                  /\ jobs[j].retry_count < jobs[j].max_retries
            /\ ~Stuck(jobs[j]))
    /\ [][\A j \in JobIds :
            (jobs'[j].retry_count # jobs[j].retry_count
                /\ jobs'[j].retry_count >= jobs'[j].max_retries)
            => /\ \E w \in Workers : ExhaustedCommit(w)
               /\ jobs'[j].status = "failed"
               /\ jobs'[j].lease_expires_at = Null]_vars

C38_Witness ==
    /\ jobs["j1"].status = "processing"
    /\ jobs["j1"].retry_count = MAX_RETRIES - 1
    /\ jobs["j1"].lease_expires_at < now
    /\ \E w \in Workers : worker[w].pc = "exhausted" /\ worker[w].job = "j1"

\* ------------------------------------------------------------- queued once
\* One job from POST /jobs, its refund endpoint, one polling worker, the RQ
\* worker, attempts that succeed, fail or crash, one lease expiry, every event
\* recorded.
InitQueue == InitWith([jobs |-> {"j1"}, audit |-> TRUE, ticks |-> ShortTicks, storage |-> FALSE])

NextQueue ==
    \/ \E t \in Tiers : CreateJobRead("c1", t)
    \/ \E e \in BOOLEAN : CreateJobCommit("c1", e)
    \/ \E j \in JobIds : RefundJobRead("c1", j)
    \/ RefundJobCommit("c1")
    \/ \E j \in JobIds : PollJobs("w1", j)
    \/ ProcessJobClaim("w1")
    \/ AddStartedEvent("w1")
    \/ FinishSuccess("w1")
    \/ AddCompletedEvent("w1")
    \/ FinishFailureRead("w1")
    \/ FinishFailureCommit("w1")
    \/ AddFailedEvent("w1")
    \/ WorkerCrash("w1")
    \/ CleanupStuckJobs("w1")
    \/ \E j \in JobIds : RQStart(j)
    \/ RQAddStartedEvent
    \/ RQFinishSuccess
    \/ RQAddCompletedEvent
    \/ RQFinishFailureRead
    \/ RQFinishFailureCommit
    \/ RQAddFailedEvent
    \/ RQCrash
    \/ Tick

SpecQueue == InitQueue /\ [][NextQueue]_vars

\* C39: a job is queued only between its creation and its first claim: a
\* queued job has never been started, no step sets the status of a job that
\* was claimed back to queued, and the claim of a job whose lease expired
\* takes it from processing to processing.
C39_QueuedOnce ==
    /\ [](\A j \in JobIds :
            jobs[j].status = "queued"
               => /\ jobs[j].started_at = Null
                  /\ jobs[j].lease_expires_at = Null
                  /\ jobs[j].retry_count = 0
                  /\ events[j]["started"] + events[j]["started_retry"] = 0)
    /\ [][\A j \in JobIds :
            /\ (jobs'[j].status = "queued" /\ jobs[j].status # "queued")
                  => jobs[j].status = "absent"
            /\ (jobs'[j].retry_count # jobs[j].retry_count)
                  => jobs[j].status = "processing"
                     /\ jobs'[j].status \in {"processing", "failed"}]_vars

C39_Witness ==
    /\ jobs["j1"].status = "processing"
    /\ jobs["j1"].retry_count = 1
    /\ jobs["j1"].started_at = TickMinutes
    /\ events["j1"]["started"] = 1
    /\ events["j1"]["started_retry"] = 0
    /\ \E w \in Workers : worker[w].pc = "claimed" /\ worker[w].job = "j1" /\ worker[w].is_retry

\* ------------------------------------------------------------- RQ on a claimed job
\* C40: process_image_enhancement starts work only on a job that is still
\* queued: run for a job that a polling worker has claimed or that is
\* terminal, it returns without setting the job processing, so that neither
\* the provider is invoked nor a refund made for it.
C40_RQOnlyQueued ==
    [][\A j \in JobIds :
        (RQStart(j) /\ jobs[j].status # "queued")
            => /\ jobs'[j] = jobs[j]
               /\ rq'.pc = "idle"]_vars

====
